---- MODULE Spec2Model ----
(***************************************************************************)
(* Model of the markup compiler of src/src/d/drafts.py:                    *)
(*   parse_inline_formatting (the inline formatter) and                    *)
(*   parse_markup_to_json    (the block compiler).                         *)
(* A Python str is a sequence of one-character strings.  Offsets into a    *)
(* text are Python's (0-based); Slice(s, a, b) is s[a:b].  Python's None   *)
(* is the empty sequence and a present optional value x is <<x>>.          *)
(***************************************************************************)
EXTENDS Integers, Sequences, FiniteSets, TLC

VARIABLES
    \* parse_inline_formatting
    text,             \* the argument
    matches,          \* the list of (start, end, format_type, match)
    elements,         \* the runs built so far
    current_pos,      \* the cursor into text
    mi,               \* how many matches the walk has processed
    fpc,              \* position in parse_inline_formatting
    \* parse_markup_to_json
    markup_text,      \* the argument
    blocks,           \* the stripped non-empty pieces
    content,          \* the nodes appended so far
    footnote_counter, \* the equation counter
    bi,               \* how many blocks the loop has processed
    raised,           \* whether a Python exception was raised
    result,           \* <<the returned root>>, <<>> before the return
    pc,               \* position in parse_markup_to_json
    \* history, read by no action
    pieces,           \* the strings that, joined by '|', are the argument
    origin,           \* for each node of content, the index of its block
    \* the module and its threads
    session,          \* the module global session
    pub_url,          \* the module global pub_url
    frames,           \* for each thread, the locals of its call of
                      \* parse_markup_to_json
    \* the functions that talk to the platform: create_draft_with_retry_logic,
    \* auto_save_draft_enhanced and the publishing script
    args,             \* the arguments of the call, or what the user typed
    hpc,              \* position in the function
    log,              \* history: the requests sent, each with how it ended
    slept,            \* history: the arguments of time.sleep
    printed,          \* the result lines printed by the publishing script
    drafts,           \* the first listing of create_draft_with_retry_logic
    reference_id,     \* the id of the reference draft
    response,         \* the response to the POST or PUT
    attempt,          \* the loop variable of the 500 recovery
    updated_drafts,   \* the listing of the current poll
    candidates,       \* the (draft, draft_time) pairs of the current poll
    update_data,      \* the body of the PUT of auto_save_draft_enhanced
    returned,         \* <<the returned value>>, <<>> before the return
    exception         \* <<the exception that left the function>>, or None

vars == <<text, matches, elements, current_pos, mi, fpc,
          markup_text, blocks, content, footnote_counter, bi, raised, result, pc,
          pieces, origin, session, pub_url, frames,
          args, hpc, log, slept, printed, drafts, reference_id, response, attempt,
          updated_drafts, candidates, update_data, returned, exception>>

fvars == <<text, matches, elements, current_pos, mi, fpc>>
cvars == <<markup_text, blocks, content, footnote_counter, bi, raised, result, pc,
           pieces, origin>>
tvars == <<session, pub_url, frames>>
hvars == <<args, hpc, log, slept, printed, drafts, reference_id, response, attempt,
           updated_drafts, candidates, update_data, returned, exception>>

----------------------------------------------------------------------------
(* Bounds of the model *)

\* the longest formatter input, in tokens of InlineTokens
MaxToks == 5

\* the most pipe-separated pieces of a compiler input
MaxBlocks == 3

\* the longest body of a one-block compiler input, in tokens of BodyTokens
MaxBodyToks == 3

\* the longest body of a compiler input of SpecTags, in tokens of TagBodyTokens
MaxTagToks == 2

\* the longest formatter input of SpecFallback, in tokens of FallbackTokens
MaxPlainToks == 4

\* the longest link text and the longest url of a formatter input of SpecLink,
\* in characters of LinkChars
MaxLinkLen == 2

\* the most pipe-separated pieces of a compiler input of SpecEquations
MaxEqBlocks == 4

\* the longest formatter input of SpecOverlap, in tokens of OverlapTokens
MaxMarkToks == 4

\* the most pipe-separated pieces of a compiler input of SpecThreads
MaxCallBlocks == 2

----------------------------------------------------------------------------
(* Python str operations *)

None == <<>>

\* Two characters that a TLA+ string cannot hold, each one character of a text
BACKTICK == "BACKTICK"   \* U+0060
BULLET == "BULLET"       \* U+2022

\* s[a:b] for 0 <= a, b <= len(s)
Slice(s, a, b) == SubSeq(s, a + 1, b)

\* str.strip() with no argument removes whitespace
IsSpace(c) == c \in {" ", "\n", "\t"}

RECURSIVE LStrip(_)
LStrip(s) == IF s /= <<>> /\ IsSpace(Head(s)) THEN LStrip(Tail(s)) ELSE s

RECURSIVE RStrip(_)
RStrip(s) ==
    IF s /= <<>> /\ IsSpace(s[Len(s)]) THEN RStrip(SubSeq(s, 1, Len(s) - 1)) ELSE s

strip(s) == RStrip(LStrip(s))

\* s.find(sub, from), -1 when there is none
RECURSIVE find(_, _, _)
find(s, sub, from) ==
    IF from + Len(sub) > Len(s) THEN -1
    ELSE IF Slice(s, from, from + Len(sub)) = sub THEN from
    ELSE find(s, sub, from + 1)

\* sub in s
Contains(s, sub) == find(s, sub, 0) /= -1

\* s.split(sep): every piece, the empty ones included
RECURSIVE split(_, _)
split(s, sep) ==
    LET i == find(s, sep, 0)
    IN IF i = -1 THEN <<s>>
       ELSE <<Slice(s, 0, i)>> \o split(Slice(s, i + Len(sep), Len(s)), sep)

\* s.split(sep, 1): one piece, or the two around the first sep
split1(s, sep) ==
    LET i == find(s, sep, 0)
    IN IF i = -1 THEN <<s>>
       ELSE <<Slice(s, 0, i), Slice(s, i + Len(sep), Len(s))>>

\* s.replace(old, new) for one-character old and new
RECURSIVE replace(_, _, _)
replace(s, old, new) ==
    IF s = <<>> THEN <<>>
    ELSE <<IF Head(s) = old THEN new ELSE Head(s)>> \o replace(Tail(s), old, new)

LowerChar(c) ==
    CASE c = "A" -> "a" [] c = "B" -> "b" [] c = "C" -> "c" [] c = "D" -> "d"
      [] c = "E" -> "e" [] c = "F" -> "f" [] c = "G" -> "g" [] c = "H" -> "h"
      [] c = "I" -> "i" [] c = "J" -> "j" [] c = "K" -> "k" [] c = "L" -> "l"
      [] c = "M" -> "m" [] c = "N" -> "n" [] c = "O" -> "o" [] c = "P" -> "p"
      [] c = "Q" -> "q" [] c = "R" -> "r" [] c = "S" -> "s" [] c = "T" -> "t"
      [] c = "U" -> "u" [] c = "V" -> "v" [] c = "W" -> "w" [] c = "X" -> "x"
      [] c = "Y" -> "y" [] c = "Z" -> "z" [] OTHER -> c

\* s.lower()
lower(s) == [i \in 1..Len(s) |-> LowerChar(s[i])]

RECURSIVE Flatten(_)
Flatten(ss) == IF ss = <<>> THEN <<>> ELSE Head(ss) \o Flatten(Tail(ss))

----------------------------------------------------------------------------
(* parse_inline_formatting: the patterns and re.finditer *)

\* the five patterns, in the order of the list
patterns ==
    << [kind |-> "delim", delim |-> <<"*", "*">>, format_type |-> "strong"],
       [kind |-> "delim", delim |-> <<"*">>, format_type |-> "em"],
       [kind |-> "delim", delim |-> <<"~", "~">>, format_type |-> "strikethrough"],
       [kind |-> "delim", delim |-> <<BACKTICK>>, format_type |-> "code"],
       [kind |-> "link", delim |-> <<>>, format_type |-> "link"] >>

\* '.' matches any character but a newline
NoNewline(s) == \A i \in 1..Len(s) : s[i] /= "\n"

\* D(.*?)D tried at offset s: the lazy group ends at the first closing D, and
\* no newline may lie before it.  The match in a sequence, or <<>>.
DelimAt(t, p, s) ==
    LET k == Len(p.delim)
        e == find(t, p.delim, s + k)
    IN IF s + k <= Len(t) /\ Slice(t, s, s + k) = p.delim /\ e /= -1
          /\ NoNewline(Slice(t, s + k, e))
       THEN << [start |-> s, end |-> e + k, format_type |-> p.format_type,
                group1 |-> Slice(t, s + k, e), group2 |-> <<>>] >>
       ELSE <<>>

\* \[([^\]]+)\]\(([^)]+)\) tried at offset s: group 1 runs to the first ']',
\* group 2 from after '(' to the first ')'; neither may be empty.
LinkAt(t, p, s) ==
    LET j == find(t, <<"]">>, s + 1)
        k == find(t, <<")">>, j + 2)
    IN IF s < Len(t) /\ t[s + 1] = "[" /\ j /= -1 /\ j >= s + 2
          /\ j + 1 < Len(t) /\ t[j + 2] = "(" /\ k /= -1 /\ k >= j + 3
       THEN << [start |-> s, end |-> k + 1, format_type |-> p.format_type,
                group1 |-> Slice(t, s + 1, j), group2 |-> Slice(t, j + 2, k)] >>
       ELSE <<>>

MatchAt(t, p, s) == IF p.kind = "link" THEN LinkAt(t, p, s) ELSE DelimAt(t, p, s)

\* re.finditer(pattern, text): the leftmost match at or after pos, then on
\* from its end
RECURSIVE finditer(_, _, _)
finditer(t, p, pos) ==
    IF pos >= Len(t) THEN <<>>
    ELSE LET m == MatchAt(t, p, pos)
         IN IF m = <<>> THEN finditer(t, p, pos + 1)
            ELSE m \o finditer(t, p, m[1].end)

\* the loop over the patterns that fills matches
RECURSIVE CollectMatches(_, _)
CollectMatches(t, i) ==
    IF i > Len(patterns) THEN <<>>
    ELSE finditer(t, patterns[i], 0) \o CollectMatches(t, i + 1)

\* list.sort(key=start) is stable: m goes after every element whose start is
\* not greater
RECURSIVE InsertByStart(_, _)
InsertByStart(sorted, m) ==
    IF sorted = <<>> THEN <<m>>
    ELSE IF Head(sorted).start <= m.start
         THEN <<Head(sorted)>> \o InsertByStart(Tail(sorted), m)
         ELSE <<m>> \o sorted

RECURSIVE SortByStart(_)
SortByStart(ms) ==
    IF ms = <<>> THEN <<>>
    ELSE InsertByStart(SortByStart(SubSeq(ms, 1, Len(ms) - 1)), ms[Len(ms)])

----------------------------------------------------------------------------
(* parse_inline_formatting: the runs *)

PlainRun(t) == [type |-> "text", text |-> t, marks |-> <<>>]

MarkRun(t, format_type) ==
    [type |-> "text", text |-> t, marks |-> <<[type |-> format_type]>>]

\* a faulty variant: the link opens in the same tab
LinkRun_SameTab(t, url) ==
    [type |-> "text", text |-> t,
     marks |-> << [type |-> "link",
                   attrs |-> [href |-> url, target |-> "_self",
                              rel |-> "noopener noreferrer nofollow",
                              class |-> None]] >>]

LinkRun(t, url) ==
    [type |-> "text", text |-> t,
     marks |-> << [type |-> "link",
                   attrs |-> [href |-> url, target |-> "_blank",
                              rel |-> "noopener noreferrer nofollow",
                              class |-> None]] >>]

\* the plain text before a match: added when start > current_pos
GapRuns(t, pos, m) ==
    IF m.start > pos /\ Slice(t, pos, m.start) /= <<>>
    THEN <<PlainRun(Slice(t, pos, m.start))>>
    ELSE <<>>

\* the formatted run of a match
StyledRun(m) ==
    IF m.format_type = "link" THEN LinkRun(m.group1, m.group2)
    ELSE MarkRun(m.group1, m.format_type)

\* the cursor after a match
NextPos(m) == m.end

\* a faulty variant: a match that starts before the cursor is discarded
WalkStep_SkipOverlap(t, m, st) ==
    IF m.start < st.current_pos THEN st
    ELSE [elements |-> st.elements \o GapRuns(t, st.current_pos, m) \o <<StyledRun(m)>>,
          current_pos |-> NextPos(m)]

\* one iteration of the loop over the sorted matches
WalkStep(t, m, st) ==
    [elements |-> st.elements \o GapRuns(t, st.current_pos, m) \o <<StyledRun(m)>>,
     current_pos |-> NextPos(m)]

RECURSIVE WalkAll(_, _, _, _)
WalkAll(t, ms, i, st) ==
    IF i > Len(ms) THEN st ELSE WalkAll(t, ms, i + 1, WalkStep(t, ms[i], st))

\* the text after the last match
RemainingRuns(t, pos) ==
    IF pos < Len(t) /\ Slice(t, pos, Len(t)) /= <<>>
    THEN <<PlainRun(Slice(t, pos, Len(t)))>>
    ELSE <<>>

\* a run survives the filter when its text is not blank
KeepRun(e) == strip(e.text) /= <<>>

FilterRuns(es) == SelectSeq(es, KeepRun)

\* a faulty variant: the filter of blank runs without the two fallbacks
PostProcess_NoFallback(t, es) == FilterRuns(es)

\* the fallback, the filter of blank runs, and the fallback again
PostProcess(t, es) ==
    LET es1 == IF es = <<>> THEN <<PlainRun(t)>> ELSE es
        es2 == FilterRuns(es1)
    IN IF es2 = <<>> THEN <<PlainRun(t)>> ELSE es2

SortedMatches(t) == SortByStart(CollectMatches(t, 1))

parse_inline_formatting(t) ==
    LET st == WalkAll(t, SortedMatches(t), 1, [elements |-> <<>>, current_pos |-> 0])
    IN PostProcess(t, st.elements \o RemainingRuns(t, st.current_pos))

----------------------------------------------------------------------------
(* The formatter, step by step *)

\* what the formatter's inputs are made of
InlineTokens ==
    { <<"a">>, <<" ">>, <<"*">>, <<"*", "*">>, <<"~", "~">>, <<BACKTICK>>,
      <<"[", "a">>, <<"]", "(", "b", ")">> }

TokenSeqs(T, n) == UNION {[1..k -> T] : k \in 0..n}

\* the texts of at most n tokens
FormatInputs(n) == {Flatten(ts) : ts \in TokenSeqs(InlineTokens, n)}

\* three texts written out: 'no markers', '[x](http://y)' and 'a **b** c'
E_no_markers == <<"n", "o", " ", "m", "a", "r", "k", "e", "r", "s">>
E_link == <<"[", "x", "]", "(", "h", "t", "t", "p", ":", "/", "/", "y", ")">>
E_bold == <<"a", " ", "*", "*", "b", "*", "*", " ", "c">>

FormatExamples == {E_no_markers, E_link, E_bold}

\* no thread: the module globals as lines 12-13 leave them
NoFrames == <<>>

ThreadsIdle == session = None /\ pub_url = None /\ frames = NoFrames

\* no call of a function that talks to the platform
HttpIdle ==
    /\ args = <<>> /\ hpc = "idle" /\ log = <<>> /\ slept = <<>> /\ printed = <<>>
    /\ drafts = <<>> /\ reference_id = None /\ response = None /\ attempt = 0
    /\ updated_drafts = <<>> /\ candidates = <<>> /\ update_data = <<>>
    /\ returned = <<>> /\ exception = None

CompilerIdle ==
    /\ markup_text = <<>> /\ blocks = <<>> /\ content = <<>>
    /\ footnote_counter = 1 /\ bi = 0 /\ raised = FALSE /\ result = <<>>
    /\ pc = "idle" /\ pieces = <<>> /\ origin = <<>>

InitFormat ==
    /\ text \in FormatInputs(MaxToks) \cup FormatExamples
    /\ matches = <<>> /\ elements = <<>> /\ current_pos = 0 /\ mi = 0
    /\ fpc = "start"
    /\ CompilerIdle
    /\ ThreadsIdle
    /\ HttpIdle

\* the five finditer loops and the sort
FindMatches ==
    /\ fpc = "start"
    /\ matches' = SortedMatches(text)
    /\ fpc' = "walk"
    /\ UNCHANGED <<text, elements, current_pos, mi>>
    /\ UNCHANGED cvars
    /\ UNCHANGED tvars
    /\ UNCHANGED hvars

\* one iteration of the loop over matches
WalkMatch ==
    /\ fpc = "walk" /\ mi < Len(matches)
    /\ LET st == WalkStep(text, matches[mi + 1],
                          [elements |-> elements, current_pos |-> current_pos])
       IN elements' = st.elements /\ current_pos' = st.current_pos
    /\ mi' = mi + 1
    /\ UNCHANGED <<text, matches, fpc>>
    /\ UNCHANGED cvars
    /\ UNCHANGED tvars
    /\ UNCHANGED hvars

\* after the loop: the remaining text
AddRemaining ==
    /\ fpc = "walk" /\ mi = Len(matches)
    /\ elements' = elements \o RemainingRuns(text, current_pos)
    /\ fpc' = "post"
    /\ UNCHANGED <<text, matches, current_pos, mi>>
    /\ UNCHANGED cvars
    /\ UNCHANGED tvars
    /\ UNCHANGED hvars

\* the fallbacks and the filter, and the return
ReturnRuns ==
    /\ fpc = "post"
    /\ elements' = PostProcess(text, elements)
    /\ fpc' = "done"
    /\ UNCHANGED <<text, matches, current_pos, mi>>
    /\ UNCHANGED cvars
    /\ UNCHANGED tvars
    /\ UNCHANGED hvars

NextFormat == FindMatches \/ WalkMatch \/ AddRemaining \/ ReturnRuns

SpecFormat == InitFormat /\ [][NextFormat]_vars

\* Inputs with few or blank matches
FallbackTokens == { <<"a">>, <<" ">>, <<"\n">>, <<"*">>, <<"*", "*">>, <<BACKTICK>> }

FallbackInputs(n) == {Flatten(ts) : ts \in TokenSeqs(FallbackTokens, n)}

\* the state at the call of parse_inline_formatting(t)
FormatCallState(t) ==
    /\ text = t
    /\ matches = <<>> /\ elements = <<>> /\ current_pos = 0 /\ mi = 0
    /\ fpc = "start"
    /\ CompilerIdle
    /\ ThreadsIdle
    /\ HttpIdle

InitFallback ==
    \E t \in FallbackInputs(MaxPlainToks) \cup {E_no_markers} : FormatCallState(t)

SpecFallback == InitFallback /\ [][NextFormat]_vars

\* Inputs of the form '[X](Y)'
LinkChars == {"a", " ", "\n", ":", "/"}

\* the strings of 1 to n characters of LinkChars
LinkParts(n) == UNION {[1..k -> LinkChars] : k \in 1..n}

LinkText(x, y) == <<"[">> \o x \o <<"]", "(">> \o y \o <<")">>

LinkInputs(n) == {LinkText(x, y) : x \in LinkParts(n), y \in LinkParts(n)}

InitLink == \E t \in LinkInputs(MaxLinkLen) \cup {E_link} : FormatCallState(t)

SpecLink == InitLink /\ [][NextFormat]_vars

\* Inputs whose matches overlap
E_link_ab == <<"[", "a", "]", "(", "b", ")">>

OverlapTokens ==
    { <<"a">>, <<"*">>, <<"*", "*">>, <<"~", "~">>, <<BACKTICK>>, E_link_ab }

OverlapInputs(n) == {Flatten(ts) : ts \in TokenSeqs(OverlapTokens, n)}

InitOverlap == \E t \in OverlapInputs(MaxMarkToks) \cup {E_bold} : FormatCallState(t)

SpecOverlap == InitOverlap /\ [][NextFormat]_vars

----------------------------------------------------------------------------
(* parse_markup_to_json: the literals of the code *)

T_title == <<"t", "i", "t", "l", "e">>
T_subtitle == <<"s", "u", "b", "t", "i", "t", "l", "e">>
T_text == <<"t", "e", "x", "t">>
T_quote == <<"q", "u", "o", "t", "e">>
T_pullquote == <<"p", "u", "l", "l", "q", "u", "o", "t", "e">>
T_list == <<"l", "i", "s", "t">>
T_numberlist == <<"n", "u", "m", "b", "e", "r", "l", "i", "s", "t">>
T_code == <<"c", "o", "d", "e">>
T_rule == <<"r", "u", "l", "e">>
T_button == <<"b", "u", "t", "t", "o", "n">>
T_subscribe == <<"s", "u", "b", "s", "c", "r", "i", "b", "e">>
T_share == <<"s", "h", "a", "r", "e">>
T_comment == <<"c", "o", "m", "m", "e", "n", "t">>
T_subscribewidget == <<"s", "u", "b", "s", "c", "r", "i", "b", "e", "w", "i", "d", "g", "e", "t">>
T_sharewidget == <<"s", "h", "a", "r", "e", "w", "i", "d", "g", "e", "t">>
T_latex == <<"l", "a", "t", "e", "x">>
T_footnote == <<"f", "o", "o", "t", "n", "o", "t", "e">>
T_break == <<"b", "r", "e", "a", "k">>

CheckoutUrl == <<"%", "%", "c", "h", "e", "c", "k", "o", "u", "t", "_", "u", "r", "l", "%", "%">>
ShareUrl == <<"%", "%", "s", "h", "a", "r", "e", "_", "u", "r", "l", "%", "%">>
CommentsUrl == <<"%", "%", "h", "a", "l", "f", "_", "m", "a", "g", "i", "c", "_", "c", "o", "m", "m", "e", "n", "t", "s", "_", "u", "r", "l", "%", "%">>
SubscribeCaption == <<"S", "u", "b", "s", "c", "r", "i", "b", "e", " ", "f", "o", "r", " ", "m", "o", "r", "e", " ", "c", "o", "n", "t", "e", "n", "t", "!">>
ShareCaption == <<"S", "h", "a", "r", "e", " ", "t", "h", "i", "s", " ", "p", "o", "s", "t", "!">>
LangEn == <<"e", "n">>
EquationPrefix == <<"E", "Q", "U", "A", "T", "I", "O", "N", "_">>

\* block_type in ['h1', ..., 'h6']
HeadingTags == {<<"h", d>> : d \in {"1", "2", "3", "4", "5", "6"}}

\* the tags that have a branch in the elif chain
RecognizedTags ==
    { T_title, T_subtitle, T_text, T_quote, T_pullquote, T_list, T_numberlist,
      T_code, T_rule, T_button, T_subscribe, T_share, T_comment,
      T_subscribewidget, T_sharewidget, T_latex, T_footnote, T_break }
    \cup HeadingTags

Digits == <<"0", "1", "2", "3", "4", "5", "6", "7", "8", "9">>

IsDigit(c) == \E i \in 1..10 : Digits[i] = c

\* int(c) for one digit
DigitVal(c) == (CHOOSE i \in 1..10 : Digits[i] = c) - 1

\* int(s) for a string of digits
RECURSIVE int(_)
int(s) ==
    IF s = <<>> THEN 0 ELSE 10 * int(SubSeq(s, 1, Len(s) - 1)) + DigitVal(s[Len(s)])

\* str(n) for n >= 0
RECURSIVE str(_)
str(n) == IF n < 10 THEN <<Digits[n + 1]>> ELSE str(n \div 10) \o <<Digits[(n % 10) + 1]>>

----------------------------------------------------------------------------
(* parse_markup_to_json: the regular expressions *)

\* the end of the longest run of digits that starts at offset s
RECURSIVE DigitsEnd(_, _)
DigitsEnd(t, s) == IF s < Len(t) /\ IsDigit(t[s + 1]) THEN DigitsEnd(t, s + 1) ELSE s

\* \d+\. tried at offset s: the end of the match, or -1
NumberMarkerAt(t, s) ==
    LET e == DigitsEnd(t, s)
    IN IF e > s /\ e < Len(t) /\ t[e + 1] = "." THEN e + 1 ELSE -1

\* the offset of the leftmost \d+\. at or after offset s, or -1
RECURSIVE NextNumberMarker(_, _)
NextNumberMarker(t, s) ==
    IF s >= Len(t) THEN -1
    ELSE IF NumberMarkerAt(t, s) /= -1 THEN s
    ELSE NextNumberMarker(t, s + 1)

\* re.split(r'\d+\.', t)
RECURSIVE re_split_numbers(_)
re_split_numbers(t) ==
    LET s == NextNumberMarker(t, 0)
    IN IF s = -1 THEN <<t>>
       ELSE <<Slice(t, 0, s)>>
            \o re_split_numbers(Slice(t, NumberMarkerAt(t, s), Len(t)))

\* the end of the longest run of whitespace that starts at offset s
RECURSIVE SpacesEnd(_, _)
SpacesEnd(t, s) == IF s < Len(t) /\ IsSpace(t[s + 1]) THEN SpacesEnd(t, s + 1) ELSE s

\* the end of the longest run without a newline that starts at offset s
RECURSIVE LineEnd(_, _)
LineEnd(t, s) == IF s < Len(t) /\ t[s + 1] /= "\n" THEN LineEnd(t, s + 1) ELSE s

\* re.match(r'\[(\d+)\]\s*(.*)', t): <<[group1, group2]>>, or <<>> for None
FootnoteMatch(t) ==
    LET e == DigitsEnd(t, 1)
        b == SpacesEnd(t, e + 1)
    IN IF Len(t) >= 1 /\ t[1] = "[" /\ e > 1 /\ e < Len(t) /\ t[e + 1] = "]"
       THEN << [group1 |-> Slice(t, 1, e), group2 |-> Slice(t, b, LineEnd(t, b))] >>
       ELSE <<>>

----------------------------------------------------------------------------
(* parse_markup_to_json: the nodes of the branches *)

TextNodes(t) == <<PlainRun(t)>>

ParagraphNode(runs) == [type |-> "paragraph", content |-> runs]

\* a faulty variant: the body of a heading is formatted inline
HeadingNode_Formatted(level, bc) ==
    [type |-> "heading", attrs |-> [level |-> level],
     content |-> parse_inline_formatting(bc)]

HeadingNode(level, bc) ==
    [type |-> "heading", attrs |-> [level |-> level], content |-> TextNodes(bc)]

QuoteNode(bc) ==
    [type |-> "blockquote", content |-> <<ParagraphNode(TextNodes(bc))>>]

PullquoteNode(bc) ==
    [type |-> "pullquote", attrs |-> [align |-> None, color |-> None],
     content |-> <<ParagraphNode(TextNodes(bc))>>]

\* [item.strip() for item in items if item.strip()]
StripNonBlank(items) ==
    LET NonBlank(x) == strip(x) /= <<>>
        kept == SelectSeq(items, NonBlank)
    IN [i \in 1..Len(kept) |-> strip(kept[i])]

ListItems(items) ==
    [i \in 1..Len(items) |->
        [type |-> "list_item",
         content |-> <<ParagraphNode(parse_inline_formatting(items[i]))>>]]

\* a faulty variant: the blank segments are items too
BulletListNode_KeepBlank(bc) ==
    LET items == split(bc, <<BULLET>>)
    IN [type |-> "bullet_list",
        content |-> ListItems([i \in 1..Len(items) |-> strip(items[i])])]

BulletListNode(bc) ==
    [type |-> "bullet_list",
     content |-> ListItems(StripNonBlank(split(bc, <<BULLET>>)))]

\* a faulty variant: the fragment before the first marker is kept
NumberItems_KeepFirst(bc) == re_split_numbers(bc)

\* re.split(r'\d+\.', block_content)[1:]
NumberItems(bc) == Tail(re_split_numbers(bc))

OrderedListNode(bc) ==
    [type |-> "ordered_list", attrs |-> [start |-> 1, order |-> 1],
     content |-> ListItems(StripNonBlank(NumberItems(bc)))]

\* parts[0].strip() or None
OrNone(x) == IF x = <<>> THEN None ELSE <<x>>

CodeNode(bc) ==
    LET parts == split1(bc, <<"|">>)
        language == IF Len(parts) = 2 THEN OrNone(strip(parts[1])) ELSE None
        code == IF Len(parts) = 2 THEN strip(parts[2]) ELSE bc
    IN [type |-> "code_block", attrs |-> [language |-> language],
        content |-> TextNodes(code)]

RuleNode == [type |-> "horizontal_rule"]

ButtonNode(url, t) ==
    [type |-> "button",
     attrs |-> [url |-> url, text |-> t, action |-> None, class |-> None]]

SubscribeWidgetNode(button_text, description) ==
    [type |-> "subscribeWidget",
     attrs |-> [url |-> CheckoutUrl, text |-> button_text, language |-> LangEn],
     content |-> <<[type |-> "ctaCaption", content |-> TextNodes(description)]>>]

ShareWidgetNode(button_text, description) ==
    [type |-> "captionedShareButton",
     attrs |-> [url |-> ShareUrl, text |-> button_text],
     content |-> <<[type |-> "ctaCaption", content |-> TextNodes(description)]>>]

LatexNode(bc, n) ==
    [type |-> "latex_block",
     attrs |-> [persistentExpression |-> bc, id |-> EquationPrefix \o str(n)]]

FootnoteNode(num, t) ==
    [type |-> "footnote", attrs |-> [number |-> num],
     content |-> <<ParagraphNode(TextNodes(t))>>]

BreakNode == [type |-> "paragraph"]

----------------------------------------------------------------------------
(* parse_markup_to_json: one iteration of the loop over blocks *)

\* what an iteration does: the nodes it appends, the counter after it, and
\* whether it raised
Appends(nodes, fc) == [nodes |-> nodes, footnote_counter |-> fc, raised |-> FALSE]

Raises(fc) == [nodes |-> <<>>, footnote_counter |-> fc, raised |-> TRUE]

\* a, b = parts raises ValueError unless parts has two elements
CanUnpack2(parts) == Len(parts) = 2

\* a faulty variant: the two parts around '->' are not trimmed
ButtonBranch_NoTrim(bc, fc) ==
    IF Contains(bc, <<"-", ">">>)
    THEN LET parts == split1(bc, <<"-", ">">>)
         IN Appends(<<ButtonNode(parts[2], parts[1])>>, fc)
    ELSE Appends(<<ButtonNode(<<"#">>, bc)>>, fc)

\* the button branch
ButtonBranch(bc, fc) ==
    IF Contains(bc, <<"-", ">">>)
    THEN LET parts == split1(bc, <<"-", ">">>)
         IN IF CanUnpack2(parts)
            THEN Appends(<<ButtonNode(strip(parts[2]), strip(parts[1]))>>, fc)
            ELSE Raises(fc)
    ELSE Appends(<<ButtonNode(<<"#">>, bc)>>, fc)

\* the subscribewidget and sharewidget branches: Button >> Description
WidgetParts(bc, default) ==
    IF Contains(bc, <<">", ">">>)
    THEN LET parts == split1(bc, <<">", ">">>)
         IN IF CanUnpack2(parts) THEN <<strip(parts[1]), strip(parts[2])>> ELSE <<>>
    ELSE <<bc, default>>

SubscribeWidgetBranch(bc, fc) ==
    LET w == WidgetParts(bc, SubscribeCaption)
    IN IF w = <<>> THEN Raises(fc) ELSE Appends(<<SubscribeWidgetNode(w[1], w[2])>>, fc)

ShareWidgetBranch(bc, fc) ==
    LET w == WidgetParts(bc, ShareCaption)
    IN IF w = <<>> THEN Raises(fc) ELSE Appends(<<ShareWidgetNode(w[1], w[2])>>, fc)

\* a faulty variant: the counter is not incremented
LatexBranch_NoIncrement(bc, fc) == Appends(<<LatexNode(bc, fc)>>, fc)

\* the latex branch uses the counter and then increments it
LatexBranch(bc, fc) == Appends(<<LatexNode(bc, fc)>>, fc + 1)

\* the footnote branch: nothing is appended when the pattern does not match
FootnoteBranch(bc, fc) ==
    LET match == FootnoteMatch(bc)
    IN IF match /= <<>>
       THEN Appends(<<FootnoteNode(int(match[1].group1), match[1].group2)>>, fc)
       ELSE Appends(<<>>, fc)

\* the branches of the elif chain
Branch(block_type, bc, fc) ==
    CASE block_type = T_title -> Appends(<<HeadingNode(1, bc)>>, fc)
      [] block_type = T_subtitle -> Appends(<<HeadingNode(2, bc)>>, fc)
      [] block_type \in HeadingTags ->
            Appends(<<HeadingNode(int(<<block_type[2]>>), bc)>>, fc)
      [] block_type = T_text ->
            Appends(<<ParagraphNode(parse_inline_formatting(bc))>>, fc)
      [] block_type = T_quote -> Appends(<<QuoteNode(bc)>>, fc)
      [] block_type = T_pullquote -> Appends(<<PullquoteNode(bc)>>, fc)
      [] block_type = T_list -> Appends(<<BulletListNode(bc)>>, fc)
      [] block_type = T_numberlist -> Appends(<<OrderedListNode(bc)>>, fc)
      [] block_type = T_code -> Appends(<<CodeNode(bc)>>, fc)
      [] block_type = T_rule -> Appends(<<RuleNode>>, fc)
      [] block_type = T_button -> ButtonBranch(bc, fc)
      [] block_type = T_subscribe -> Appends(<<ButtonNode(CheckoutUrl, bc)>>, fc)
      [] block_type = T_share -> Appends(<<ButtonNode(ShareUrl, bc)>>, fc)
      [] block_type = T_comment -> Appends(<<ButtonNode(CommentsUrl, bc)>>, fc)
      [] block_type = T_subscribewidget -> SubscribeWidgetBranch(bc, fc)
      [] block_type = T_sharewidget -> ShareWidgetBranch(bc, fc)
      [] block_type = T_latex -> LatexBranch(bc, fc)
      [] block_type = T_footnote -> FootnoteBranch(bc, fc)
      [] block_type = T_break -> Appends(<<BreakNode>>, fc)

\* a faulty variant: a final else that makes a paragraph of the body
UnknownTag_AsParagraph(bc, fc) == Appends(<<ParagraphNode(TextNodes(bc))>>, fc)

\* the chain has no else: a tag without a branch appends nothing
UnknownTag(bc, fc) == Appends(<<>>, fc)

Dispatch(block_type, bc, fc) ==
    IF block_type \in RecognizedTags THEN Branch(block_type, bc, fc)
    ELSE UnknownTag(bc, fc)

\* '::' in block
HasTypeTag(block) == Contains(block, <<":", ":">>)

\* a faulty variant: block.split('::') without the limit of one split
SplitTag_NoLimit(block) == split(block, <<":", ":">>)

\* block.split('::', 1)
SplitTag(block) == split1(block, <<":", ":">>)

\* block_type.strip().lower()
TagOf(parts) == lower(strip(parts[1]))

\* block_content.strip()
BodyOf(parts) == strip(parts[2])

\* a faulty variant: the check of the empty body is missing
EmptyBody_Never(bc) == FALSE

\* not block_content
EmptyBody(bc) == bc = <<>>

\* a faulty variant: the block without '::' is not formatted inline
ImplicitText_Unformatted(block, fc) == Appends(<<ParagraphNode(TextNodes(block))>>, fc)

\* the block without '::' is a paragraph
ImplicitText(block, fc) ==
    Appends(<<ParagraphNode(parse_inline_formatting(block))>>, fc)

\* the block with '::'
TypedBlock(block, fc) ==
    LET parts == SplitTag(block)
    IN IF ~CanUnpack2(parts) THEN Raises(fc)
       ELSE IF EmptyBody(BodyOf(parts)) THEN Appends(<<>>, fc)
       ELSE Dispatch(TagOf(parts), BodyOf(parts), fc)

LoopBody(block, fc) ==
    IF ~HasTypeTag(block) THEN ImplicitText(block, fc) ELSE TypedBlock(block, fc)

\* a faulty variant: the substitution is missing
ReplaceSemicolons_Missing(m) == m

\* markup_text.replace(';', ',')
ReplaceSemicolons(m) == replace(m, ";", ",")

\* [block.strip() for block in markup_text.split('|') if block.strip()]
SplitBlocks(m) == StripNonBlank(split(m, <<"|">>))

\* a faulty variant: content.insert(0, node)
Extend_Prepend(list, more) == more \o list

\* content.append(node), for each node of the iteration
Extend(list, more) == list \o more

\* the returned root
DocNode(c) == [type |-> "doc", content |-> c]

\* the whole call on one frame [blocks, content, footnote_counter, raised]
RECURSIVE RunLoop(_, _, _, _)
RunLoop(bs, i, c, fc) ==
    IF i > Len(bs) THEN <<DocNode(c)>>
    ELSE LET o == LoopBody(bs[i], fc)
         IN IF o.raised THEN <<>>
            ELSE RunLoop(bs, i + 1, Extend(c, o.nodes), o.footnote_counter)

\* parse_markup_to_json(m): <<the root>>, or <<>> when it raises
parse_markup_to_json(m) == RunLoop(SplitBlocks(ReplaceSemicolons(m)), 1, <<>>, 1)

----------------------------------------------------------------------------
(* The compiler, step by step *)

\* sep.join(ps)
RECURSIVE Join(_, _)
Join(ps, sep) ==
    IF ps = <<>> THEN <<>>
    ELSE IF Len(ps) = 1 THEN ps[1]
    ELSE ps[1] \o sep \o Join(Tail(ps), sep)

FormatterIdle ==
    /\ text = <<>> /\ matches = <<>> /\ elements = <<>> /\ current_pos = 0
    /\ mi = 0 /\ fpc = "idle"

\* the state at the call of parse_markup_to_json(Join(ps, '|'))
CallState(ps) ==
    /\ pieces = ps
    /\ markup_text = Join(ps, <<"|">>)
    /\ blocks = <<>> /\ content = <<>> /\ footnote_counter = 1 /\ bi = 0
    /\ raised = FALSE /\ result = <<>> /\ origin = <<>>
    /\ pc = "start"
    /\ FormatterIdle
    /\ ThreadsIdle
    /\ HttpIdle

\* lines 55-61: the substitution, the split and the two initialisations
Prepare ==
    /\ pc = "start"
    /\ markup_text' = ReplaceSemicolons(markup_text)
    /\ blocks' = SplitBlocks(markup_text')
    /\ content' = <<>>
    /\ footnote_counter' = 1
    /\ pc' = "loop"
    /\ UNCHANGED <<bi, raised, result, pieces, origin>>
    /\ UNCHANGED fvars
    /\ UNCHANGED tvars
    /\ UNCHANGED hvars

\* one iteration of the loop over blocks
ProcessBlock ==
    /\ pc = "loop" /\ bi < Len(blocks)
    /\ LET o == LoopBody(blocks[bi + 1], footnote_counter)
       IN /\ content' = Extend(content, o.nodes)
          /\ origin' = Extend(origin, [k \in 1..Len(o.nodes) |-> bi + 1])
          /\ footnote_counter' = o.footnote_counter
          /\ raised' = o.raised
          /\ pc' = IF o.raised THEN "raised" ELSE "loop"
    /\ bi' = bi + 1
    /\ UNCHANGED <<markup_text, blocks, result, pieces>>
    /\ UNCHANGED fvars
    /\ UNCHANGED tvars
    /\ UNCHANGED hvars

\* the return after the loop
Return ==
    /\ pc = "loop" /\ bi = Len(blocks)
    /\ result' = <<DocNode(content)>>
    /\ pc' = "done"
    /\ UNCHANGED <<markup_text, blocks, content, footnote_counter, bi, raised,
                   pieces, origin>>
    /\ UNCHANGED fvars
    /\ UNCHANGED tvars
    /\ UNCHANGED hvars

NextCompile == Prepare \/ ProcessBlock \/ Return

\* Inputs of several blocks: each piece is one of these
P_empty == <<>>
P_blank == <<" ">>
P_plain == <<"a">>
P_text == <<"T", "e", "x", "t", ":", ":", " ", "a">>
P_text_nobody == <<"T", "e", "x", "t", ":", ":", " ">>
P_rule_nobody == <<" ", "R", "u", "l", "e", ":", ":">>
P_unknown == <<"Z", "z", "z", ":", ":", " ", "a", ":", ":", "b">>
P_latex == <<"L", "a", "T", "e", "X", ":", ":", " ", "a">>
P_footnote == <<"F", "o", "o", "t", "n", "o", "t", "e", ":", ":", " ", "[", "1", "]", " ", "a">>
P_heading == <<"H", "3", ":", ":", " ", "a", ";", "b">>

Pieces ==
    { P_empty, P_blank, P_plain, P_text, P_text_nobody, P_rule_nobody,
      P_unknown, P_latex, P_footnote, P_heading }

Init == \E ps \in TokenSeqs(Pieces, MaxBlocks) : CallState(ps)

Spec == Init /\ [][NextCompile]_vars

\* Inputs of one block and a richer body: a prefix, then tokens
X_implicit == <<>>
X_text == <<"T", "e", "x", "t", ":", ":", " ">>
X_code == <<"C", "o", "d", "e", ":", ":", " ">>
X_list == <<"L", "i", "s", "t", ":", ":", " ">>
X_numberlist == <<"N", "u", "m", "b", "e", "r", "L", "i", "s", "t", ":", ":", " ">>
X_button == <<"B", "u", "t", "t", "o", "n", ":", ":", " ">>
X_footnote == <<"F", "o", "o", "t", "n", "o", "t", "e", ":", ":", " ">>
X_heading == <<"H", "3", ":", ":", " ">>

BlockPrefixes ==
    { X_implicit, X_text, X_code, X_list, X_numberlist, X_button, X_footnote, X_heading }

BodyTokens ==
    { <<"a">>, <<" ">>, <<";">>, <<"*">>, <<BULLET>>, <<"1", ".">>, <<"-", ">">>,
      <<"[", "1", "]">>, <<"|">>, <<"\n", "a">> }

\* four arguments written out: 'List:: ' and three items a, b, c, each after
\* a bullet, 'Footnote:: not-bracketed', 'H3:: hi' and 'Button:: Click me'
E_list == <<"L", "i", "s", "t", ":", ":", " ", BULLET, " ", "a", " ", BULLET, " ", "b", " ", BULLET, " ", "c">>
E_footnote == <<"F", "o", "o", "t", "n", "o", "t", "e", ":", ":", " ", "n", "o", "t", "-", "b", "r", "a", "c", "k", "e", "t", "e", "d">>
E_heading == <<"H", "3", ":", ":", " ", "h", "i">>
E_button == <<"B", "u", "t", "t", "o", "n", ":", ":", " ", "C", "l", "i", "c", "k", " ", "m", "e">>

CompileExamples == {E_list, E_footnote, E_heading, E_button}

\* a prefix and a body of at most n tokens
BlockInputs(n) ==
    {x \o Flatten(ts) : x \in BlockPrefixes, ts \in TokenSeqs(BodyTokens, n)}

InitBlock == \E m \in BlockInputs(MaxBodyToks) \cup CompileExamples : CallState(<<m>>)

SpecBlock == InitBlock /\ [][NextCompile]_vars

\* Inputs of several blocks around the latex and footnote tags
P_latex_lower == <<"l", "a", "t", "e", "x", ":", ":", "b">>
P_latex_nobody == <<"L", "a", "T", "e", "X", ":", ":", " ">>

EquationPieces == {P_latex, P_latex_lower, P_latex_nobody, P_footnote, P_plain}

InitEquations == \E ps \in TokenSeqs(EquationPieces, MaxEqBlocks) : CallState(ps)

SpecEquations == InitEquations /\ [][NextCompile]_vars

\* Inputs of every tag and a short body: a prefix of the docstring's, then
\* tokens
X_title == <<"T", "i", "t", "l", "e", ":", ":", " ">>
X_subtitle == <<"S", "u", "b", "t", "i", "t", "l", "e", ":", ":", " ">>
X_h1 == <<"H", "1", ":", ":", " ">>
X_h2 == <<"h", "2", ":", ":", " ">>
X_h4 == <<"H", "4", ":", ":", " ">>
X_h5 == <<"H", "5", ":", ":", " ">>
X_h6 == <<"H", "6", ":", ":", " ">>
X_quote == <<"Q", "u", "o", "t", "e", ":", ":", " ">>
X_pullquote == <<"P", "u", "l", "l", "Q", "u", "o", "t", "e", ":", ":", " ">>
X_rule == <<"R", "u", "l", "e", ":", ":", " ">>
X_subscribe == <<"S", "u", "b", "s", "c", "r", "i", "b", "e", ":", ":", " ">>
X_share == <<"S", "h", "a", "r", "e", ":", ":", " ">>
X_comment == <<"C", "o", "m", "m", "e", "n", "t", ":", ":", " ">>
X_subscribewidget == <<"S", "u", "b", "s", "c", "r", "i", "b", "e", "W", "i", "d", "g", "e", "t", ":", ":", " ">>
X_sharewidget == <<"S", "h", "a", "r", "e", "W", "i", "d", "g", "e", "t", ":", ":", " ">>
X_latex == <<"L", "a", "T", "e", "X", ":", ":", " ">>
X_break == <<"B", "r", "e", "a", "k", ":", ":", " ">>
X_unknown == <<"H", "7", ":", ":", " ">>

TagPrefixes ==
    BlockPrefixes \cup
    { X_title, X_subtitle, X_h1, X_h2, X_h4, X_h5, X_h6, X_quote, X_pullquote,
      X_rule, X_subscribe, X_share, X_comment, X_subscribewidget, X_sharewidget,
      X_latex, X_break, X_unknown }

TagBodyTokens ==
    { <<"a">>, <<" ">>, <<"-", ">">>, <<">", ">">>, <<"[", "1", "]">>, <<":", ":">>,
      <<"|">>, <<"1", ".">>, <<"*", "a", "*">> }

\* a prefix and a body of at most n tokens
TagInputs(n) ==
    {x \o Flatten(ts) : x \in TagPrefixes, ts \in TokenSeqs(TagBodyTokens, n)}

InitTags == \E m \in TagInputs(MaxTagToks) \cup CompileExamples : CallState(<<m>>)

SpecTags == InitTags /\ [][NextCompile]_vars

----------------------------------------------------------------------------
(* Calls of parse_markup_to_json from several threads, interleaved block by  *)
(* block.  Each call has a frame of its own locals; the module globals are   *)
(* session and pub_url.                                                      *)

Threads == {"t1", "t2"}

\* a thread that is in no call
IdleFrame ==
    [arg |-> <<>>, markup_text |-> <<>>, blocks |-> <<>>, content |-> <<>>,
     footnote_counter |-> 1, bi |-> 0, raised |-> FALSE, result |-> <<>>,
     pc |-> "idle", interleaved |-> FALSE]

\* the frame at the call parse_markup_to_json(m); arg and interleaved are
\* history
NewFrame(m) == [IdleFrame EXCEPT !.arg = m, !.markup_text = m, !.pc = "start"]

\* a faulty variant: the counter is a module global that the calls share, so
\* a call goes on from the largest counter of the frames
InitialCounter_Shared(fs) ==
    LET cs == {fs[u].footnote_counter : u \in DOMAIN fs}
    IN CHOOSE c \in cs : \A d \in cs : d <= c

\* footnote_counter = 1: a local, set by each call
InitialCounter(fs) == 1

\* another thread is in the middle of its loop: it has processed a block and
\* has blocks left
OtherMidLoop(t) ==
    \E u \in Threads \ {t} :
        /\ frames[u].pc = "loop"
        /\ frames[u].bi >= 1 /\ frames[u].bi < Len(frames[u].blocks)

\* a thread calls parse_markup_to_json(m), also after a call of its that
\* returned
CallCompile(t, m) ==
    /\ frames[t].pc \in {"idle", "done"}
    /\ frames' = [frames EXCEPT ![t] = NewFrame(m)]
    /\ UNCHANGED <<fvars, cvars, session, pub_url>>
    /\ UNCHANGED hvars

\* lines 55-61 in the frame of t
PrepareIn(t) ==
    /\ frames[t].pc = "start"
    /\ LET m == ReplaceSemicolons(frames[t].markup_text)
       IN frames' = [frames EXCEPT ![t].markup_text = m,
                                   ![t].blocks = SplitBlocks(m),
                                   ![t].content = <<>>,
                                   ![t].footnote_counter = InitialCounter(frames),
                                   ![t].pc = "loop"]
    /\ UNCHANGED <<fvars, cvars, session, pub_url>>
    /\ UNCHANGED hvars

\* one iteration of the loop over blocks in the frame of t
ProcessBlockIn(t) ==
    /\ frames[t].pc = "loop" /\ frames[t].bi < Len(frames[t].blocks)
    /\ LET f == frames[t]
           o == LoopBody(f.blocks[f.bi + 1], f.footnote_counter)
       IN frames' = [frames EXCEPT ![t].content = Extend(f.content, o.nodes),
                                   ![t].footnote_counter = o.footnote_counter,
                                   ![t].raised = o.raised,
                                   ![t].pc = IF o.raised THEN "raised" ELSE "loop",
                                   ![t].bi = f.bi + 1,
                                   ![t].interleaved = f.interleaved \/ OtherMidLoop(t)]
    /\ UNCHANGED <<fvars, cvars, session, pub_url>>
    /\ UNCHANGED hvars

\* the return in the frame of t
ReturnIn(t) ==
    /\ frames[t].pc = "loop" /\ frames[t].bi = Len(frames[t].blocks)
    /\ frames' = [frames EXCEPT ![t].result = <<DocNode(frames[t].content)>>,
                                ![t].pc = "done"]
    /\ UNCHANGED <<fvars, cvars, session, pub_url>>
    /\ UNCHANGED hvars

CallPieces == {P_latex, P_footnote, P_plain}

\* the arguments of at most n pieces
CallInputs(n) == {Join(ps, <<"|">>) : ps \in TokenSeqs(CallPieces, n)}

InitThreads ==
    /\ FormatterIdle
    /\ CompilerIdle
    /\ session = None /\ pub_url = None
    /\ frames = [t \in Threads |-> IdleFrame]
    /\ HttpIdle

NextThreads ==
    \E t \in Threads :
        \/ \E m \in CallInputs(MaxCallBlocks) : CallCompile(t, m)
        \/ PrepareIn(t)
        \/ ProcessBlockIn(t)
        \/ ReturnIn(t)

SpecThreads == InitThreads /\ [][NextThreads]_vars

----------------------------------------------------------------------------
(* The functions that talk to the platform.  A request ends with an answer  *)
(* (a status code and a JSON body) or requests raises.  A title and a       *)
(* message are opaque strings; the ISO timestamp of second t is <<t>> and   *)
(* a draft_updated_at that does not parse is <<>>.                          *)

\* the status codes the platform answers with
StatusCodes == {200, 201, 404, 500}

Answer(status_code, json) ==
    [raises |-> FALSE, status_code |-> status_code, json |-> json]

\* the request raised requests.RequestException
NoAnswer == [raises |-> TRUE, status_code |-> 0, json |-> <<>>]

\* one entry of the history of requests
Sent(method, path, answer) ==
    [method |-> method, path |-> path, raises |-> answer.raises,
     status_code |-> answer.status_code]

\* Python's truth value of an optional str or dict: None, '' and {} are false
Truthy(x) == x /= None /\ DOMAIN x[1] /= {}

\* Python's truth value of an optional int: None and 0 are false
TruthyInt(x) == x /= None /\ x[1] /= 0

PublicationUrl == <<"u", "r", "l">>
Credentials == [k \in {"SID", "SUBSTACK_LLI", "SUBSTACK_SID"} |-> "c"]

\* publication_url: None, '' or a url; user_credentials: None, {} or a dict
UrlArguments == {None, << <<>> >>, <<PublicationUrl>>}
CredentialArguments == {None, << <<>> >>, <<Credentials>>}

\* the return statements: (value, success, message)
ReturnValue(v) ==
    /\ returned' = <<v>>
    /\ hpc' = "done"
    /\ exception' = exception

\* an exception leaves the function
Raise(e) ==
    /\ exception' = <<e>>
    /\ hpc' = "raised"
    /\ returned' = returned

\* neither: the function goes on at position p
GoOn(p) ==
    /\ hpc' = p
    /\ returned' = returned
    /\ exception' = exception

----------------------------------------------------------------------------
(* create_draft_with_retry_logic *)

\* the most drafts of the first listing
MaxDrafts == 2

\* the most drafts of a listing of the 500 recovery
MaxListed == 3

\* the most drafts of a listing of the 500 recovery in SpecRecover
MaxPolled == 2

\* time.time() at line 652, in seconds
creation_timestamp == 100

\* datetime.min, in seconds
datetime_min == 0

\* the title the call asks for, and another one
Title == "t"
OtherTitle == "o"

\* the first listing: drafts with an id and is_published
FirstListings(n) ==
    UNION { {[i \in 1..k |-> [id |-> i, is_published |-> f[i]]] : f \in [1..k -> BOOLEAN]}
            : k \in 0..n }

\* a listed draft of the recovery: another title; or the title asked for with
\* a timestamp that does not parse, one more than 30 s before the creation,
\* one 5 s before it, or one 3 s after it
ListedForms ==
    { [draft_title |-> OtherTitle, draft_updated_at |-> <<103>>],
      [draft_title |-> Title, draft_updated_at |-> <<>>],
      [draft_title |-> Title, draft_updated_at |-> <<60>>],
      [draft_title |-> Title, draft_updated_at |-> <<95>>],
      [draft_title |-> Title, draft_updated_at |-> <<103>>] }

PollListings(n) ==
    UNION { {[i \in 1..k |-> [id |-> i, draft_title |-> f[i].draft_title,
                               draft_updated_at |-> f[i].draft_updated_at]]
             : f \in [1..k -> ListedForms]} : k \in 0..n }

\* the answers to GET /api/v1/drafts
ListingAnswers(listings) ==
    {NoAnswer} \cup {Answer(s, <<>>) : s \in StatusCodes \ {200}}
               \cup {Answer(200, l) : l \in listings}

\* the answers without a body that the function reads
PlainAnswers == {NoAnswer} \cup {Answer(s, <<>>) : s \in StatusCodes}

\* the draft the platform answers the POST with
CreatedDraft(title) == [id |-> 9, draft_title |-> title]

\* lines 564-568: the id of the first draft that is not published, or None
RECURSIVE FirstUnpublished(_)
FirstUnpublished(ds) ==
    IF ds = <<>> THEN None
    ELSE IF ~ds[1].is_published THEN <<ds[1].id>>
    ELSE FirstUnpublished(Tail(ds))

\* datetime.fromisoformat: <<the seconds>>, or None when it raises
fromisoformat(s) == IF s = <<>> THEN None ELSE s

\* lines 703-719 for one draft: (draft, draft_time) when the title matches and
\* the draft is not older than 30 s before the creation, (draft, None) when
\* the title matches and the date does not parse
CandidateOf(draft, title) ==
    LET draft_time == fromisoformat(draft.draft_updated_at)
    IN IF draft.draft_title /= title THEN <<>>
       ELSE IF draft_time = None THEN << <<draft, None>> >>
       ELSE IF draft_time[1] - creation_timestamp > -30
            THEN << <<draft, draft_time>> >>
            ELSE <<>>

RECURSIVE Candidates(_, _)
Candidates(listing, title) ==
    IF listing = <<>> THEN <<>>
    ELSE CandidateOf(Head(listing), title) \o Candidates(Tail(listing), title)

\* the key of max at line 724: x[1] or datetime.min
TimeKey(c) == IF c[2] = None THEN datetime_min ELSE c[2][1]

\* max(candidates, key=...): the first of the candidates with the greatest key
MaxByTime(cs) ==
    LET i == CHOOSE i \in 1..Len(cs) :
                 /\ \A j \in 1..Len(cs) : TimeKey(cs[j]) <= TimeKey(cs[i])
                 /\ \A j \in 1..(i - 1) : TimeKey(cs[j]) < TimeKey(cs[i])
    IN cs[i][1]

\* lines 723-726: max when the first candidate has a timestamp, else the first
MostRecent(cs) == IF cs[1][2] /= None THEN MaxByTime(cs) ELSE cs[1][1]

\* range(3)
Attempts == 3

\* a faulty variant: the same wait before every attempt
WaitTime_Fixed(a) == 1

\* wait_time = 1 + attempt
WaitTime(a) == 1 + a

CreateArguments ==
    [title : {Title}, publication_url : UrlArguments,
     user_credentials : CredentialArguments]

\* the state at the call create_draft_with_retry_logic(**a)
CreateCallState(a) ==
    /\ args = a /\ hpc = "session" /\ log = <<>> /\ slept = <<>> /\ printed = <<>>
    /\ drafts = <<>> /\ reference_id = None /\ response = None /\ attempt = 0
    /\ updated_drafts = <<>> /\ candidates = <<>> /\ update_data = <<>>
    /\ returned = <<>> /\ exception = None

InitCreate ==
    /\ \E a \in CreateArguments : CreateCallState(a)
    /\ FormatterIdle /\ CompilerIdle /\ ThreadsIdle

\* what no action of create_draft_with_retry_logic changes
CreateFrame == UNCHANGED <<fvars, cvars, tvars, args, printed, update_data>>

\* lines 546-551: the session, or ValueError
CreateSession ==
    /\ hpc = "session"
    /\ IF Truthy(args.publication_url) /\ Truthy(args.user_credentials)
       THEN GoOn("list")
       ELSE Raise("ValueError")
    /\ UNCHANGED <<log, slept, drafts, reference_id, response, attempt,
                   updated_drafts, candidates>>
    /\ CreateFrame

\* lines 554-570: the listing and the choice of the reference draft
GetDrafts(answer) ==
    /\ hpc = "list"
    /\ log' = Append(log, Sent("GET", <<"drafts">>, answer))
    /\ IF answer.raises
       THEN Raise("RequestException") /\ UNCHANGED <<drafts, reference_id>>
       ELSE IF answer.status_code /= 200
       THEN /\ ReturnValue(<<None, FALSE, "Error: Can't get drafts for reference">>)
            /\ UNCHANGED <<drafts, reference_id>>
       ELSE /\ drafts' = answer.json
            /\ IF Len(answer.json) = 0
               THEN /\ ReturnValue(<<None, FALSE, "Error: No existing drafts found">>)
                    /\ UNCHANGED reference_id
               ELSE /\ reference_id' = FirstUnpublished(answer.json)
                    /\ IF ~TruthyInt(reference_id')
                       THEN ReturnValue(<<None, FALSE,
                                          "Error: No unpublished draft found for reference">>)
                       ELSE GoOn("reference")
    /\ UNCHANGED <<slept, response, attempt, updated_drafts, candidates>>
    /\ CreateFrame

\* a faulty variant: any answer for the reference draft will do
ReferenceFound_Always(answer) == TRUE

\* line 573, negated
ReferenceFound(answer) == answer.status_code = 200

\* lines 572-574: the reference draft
GetReference(answer) ==
    /\ hpc = "reference"
    /\ log' = Append(log, Sent("GET", <<"drafts", reference_id[1]>>, answer))
    /\ IF answer.raises THEN Raise("RequestException")
       ELSE IF ~ReferenceFound(answer)
       THEN ReturnValue(<<None, FALSE, "Error: Can't get reference draft">>)
       ELSE GoOn("post")
    /\ UNCHANGED <<slept, drafts, reference_id, response, attempt, updated_drafts,
                   candidates>>
    /\ CreateFrame

\* lines 658-684 and 743-747: the creating POST and what its status leads to
PostDraft(answer) ==
    /\ hpc = "post"
    /\ log' = Append(log, Sent("POST", <<"drafts">>, answer))
    /\ IF answer.raises
       THEN Raise("RequestException") /\ UNCHANGED response
       ELSE /\ response' = <<answer>>
            /\ IF answer.status_code \in {200, 201}
               THEN ReturnValue(<<(<<answer.json>>), TRUE, "Draft created successfully">>)
               ELSE IF answer.status_code = 500
               THEN GoOn("recover")
               ELSE ReturnValue(<<None, FALSE, "Draft creation failed">>)
    /\ attempt' = 0
    /\ UNCHANGED <<slept, drafts, reference_id, updated_drafts, candidates>>
    /\ CreateFrame

\* lines 690-738: one iteration of the recovery loop
PollDrafts(answer) ==
    /\ hpc = "recover" /\ attempt < Attempts
    /\ slept' = Append(slept, WaitTime(attempt))
    /\ log' = Append(log, Sent("GET", <<"drafts">>, answer))
    /\ IF ~answer.raises /\ answer.status_code = 200
       THEN /\ updated_drafts' = answer.json
            /\ candidates' = Candidates(answer.json, args.title)
            /\ IF candidates' /= <<>>
               THEN /\ ReturnValue(<<(<<MostRecent(candidates')>>), TRUE,
                                     "Draft created successfully (recovered from 500 error)">>)
                    /\ UNCHANGED attempt
               ELSE GoOn("recover") /\ attempt' = attempt + 1
       ELSE /\ GoOn("recover") /\ attempt' = attempt + 1
            /\ UNCHANGED <<updated_drafts, candidates>>
    /\ UNCHANGED <<drafts, reference_id, response>>
    /\ CreateFrame

\* line 741: the loop is over
GiveUp ==
    /\ hpc = "recover" /\ attempt >= Attempts
    /\ ReturnValue(<<None, FALSE,
                     "Received 500 error and couldn't verify draft creation after 3 attempts">>)
    /\ UNCHANGED <<log, slept, drafts, reference_id, response, attempt,
                   updated_drafts, candidates>>
    /\ CreateFrame

NextCreate ==
    \/ CreateSession
    \/ \E answer \in ListingAnswers(FirstListings(MaxDrafts)) : GetDrafts(answer)
    \/ \E answer \in PlainAnswers : GetReference(answer)
    \/ \E answer \in {NoAnswer} \cup {Answer(s, CreatedDraft(args.title)) : s \in StatusCodes} :
           PostDraft(answer)
    \/ \E answer \in ListingAnswers(PollListings(MaxListed)) : PollDrafts(answer)
    \/ GiveUp

SpecCreate == InitCreate /\ [][NextCreate]_vars

\* The 500 recovery on its own: the state after the POST of line 658 was
\* answered 500, for a call with a publication url and credentials
AfterPost500(listing) ==
    /\ args = [title |-> Title, publication_url |-> <<PublicationUrl>>,
               user_credentials |-> <<Credentials>>]
    /\ hpc = "recover" /\ attempt = 0
    /\ drafts = listing /\ reference_id = FirstUnpublished(listing)
    /\ log = << Sent("GET", <<"drafts">>, Answer(200, listing)),
                Sent("GET", <<"drafts", FirstUnpublished(listing)[1]>>, Answer(200, <<>>)),
                Sent("POST", <<"drafts">>, Answer(500, CreatedDraft(Title))) >>
    /\ response = <<Answer(500, CreatedDraft(Title))>>
    /\ slept = <<>> /\ printed = <<>> /\ updated_drafts = <<>> /\ candidates = <<>>
    /\ update_data = <<>> /\ returned = <<>> /\ exception = None

\* the first listing had one draft, not published
InitRecover ==
    /\ AfterPost500(<<[id |-> 1, is_published |-> FALSE]>>)
    /\ FormatterIdle /\ CompilerIdle /\ ThreadsIdle

NextRecover ==
    \/ \E answer \in ListingAnswers(PollListings(MaxPolled)) : PollDrafts(answer)
    \/ GiveUp

\* the function is sequential code: while the loop is not over its next
\* statement runs, every sleep ending and every request ending with an answer
\* or an exception
SpecRecover == InitRecover /\ [][NextRecover]_vars /\ WF_vars(NextRecover)

----------------------------------------------------------------------------
(* auto_save_draft_enhanced *)

\* a content_json argument: a dict or a str
IsDict(x) == x.isdict
ContentDict == [isdict |-> TRUE, value |-> "doc"]
ContentStr == [isdict |-> FALSE, value |-> "body"]

\* json.dumps: the str that encodes the dict
json_dumps(x) == [isdict |-> FALSE, value |-> x.value]

AutoSaveArguments ==
    [draft_id : {None, <<0>>, <<7>>},
     title : {None, <<"">>, <<Title>>},
     subtitle : {None, <<"s">>},
     content_json : {None, <<ContentDict>>, <<ContentStr>>},
     publication_url : UrlArguments,
     user_credentials : CredentialArguments]

\* a faulty variant: an empty title is left out
UpdateKeys_Truthy(a) ==
    (IF a.title /= None /\ a.title[1] /= "" THEN {"draft_title"} ELSE {})
        \cup (IF a.subtitle /= None THEN {"draft_subtitle"} ELSE {})
        \cup (IF a.content_json /= None THEN {"draft_body"} ELSE {})

\* lines 459-468: the keys of update_data
UpdateKeys(a) ==
    (IF a.title /= None THEN {"draft_title"} ELSE {})
        \cup (IF a.subtitle /= None THEN {"draft_subtitle"} ELSE {})
        \cup (IF a.content_json /= None THEN {"draft_body"} ELSE {})

\* lines 457-468: update_data
UpdateData(a) ==
    [k \in UpdateKeys(a) |->
        CASE k = "draft_title" -> a.title[1]
          [] k = "draft_subtitle" -> a.subtitle[1]
          [] k = "draft_body" ->
                IF IsDict(a.content_json[1]) THEN json_dumps(a.content_json[1])
                ELSE a.content_json[1]]

\* one entry of the history of requests, for a request with a JSON body
SentWith(method, path, json, answer) ==
    [method |-> method, path |-> path, json |-> json, raises |-> answer.raises,
     status_code |-> answer.status_code]

\* the draft the platform answers the PUT with
SavedDraft(draft_id) == [id |-> draft_id]

\* the state at the call auto_save_draft_enhanced(**a)
InitAutoSave ==
    /\ args \in AutoSaveArguments
    /\ hpc = "autosave" /\ log = <<>> /\ slept = <<>> /\ printed = <<>>
    /\ drafts = <<>> /\ reference_id = None /\ response = None /\ attempt = 0
    /\ updated_drafts = <<>> /\ candidates = <<>> /\ update_data = <<>>
    /\ returned = <<>> /\ exception = None
    /\ FormatterIdle /\ CompilerIdle /\ ThreadsIdle

\* what no action of auto_save_draft_enhanced changes
AutoSaveFrame ==
    UNCHANGED <<fvars, cvars, tvars, args, slept, printed, drafts, reference_id,
                attempt, updated_drafts, candidates>>

\* lines 445-471: the checks and update_data
PrepareUpdate ==
    /\ hpc = "autosave"
    /\ IF ~TruthyInt(args.draft_id)
       THEN /\ ReturnValue(<<None, FALSE, "Error: Draft ID is required for auto-save">>)
            /\ UNCHANGED update_data
       ELSE IF ~(Truthy(args.publication_url) /\ Truthy(args.user_credentials))
       THEN /\ ReturnValue(<<None, FALSE,
                             "publication_url and user_credentials are required">>)
            /\ UNCHANGED update_data
       ELSE /\ update_data' = UpdateData(args)
            /\ IF DOMAIN update_data' = {}
               THEN ReturnValue(<<None, FALSE, "Warning: No data provided for auto-save">>)
               ELSE GoOn("put")
    /\ UNCHANGED <<log, response>>
    /\ AutoSaveFrame

\* lines 476-487: the PUT and the return
PutDraft(answer) ==
    /\ hpc = "put"
    /\ log' = Append(log, SentWith("PUT", <<"drafts", args.draft_id[1]>>, update_data,
                                   answer))
    /\ IF answer.raises
       THEN Raise("RequestException") /\ UNCHANGED response
       ELSE /\ response' = <<answer>>
            /\ IF answer.status_code = 200
               THEN ReturnValue(<<(<<answer.json>>), TRUE, "Draft auto-saved successfully">>)
               ELSE ReturnValue(<<None, FALSE, "Auto-save failed">>)
    /\ UNCHANGED update_data
    /\ AutoSaveFrame

NextAutoSave ==
    \/ PrepareUpdate
    \/ /\ hpc = "put"
       /\ \E answer \in {NoAnswer} \cup {Answer(s, SavedDraft(args.draft_id[1])) : s \in StatusCodes} :
              PutDraft(answer)

SpecAutoSave == InitAutoSave /\ [][NextAutoSave]_vars

----------------------------------------------------------------------------
(* examples/python/draft_publish.py: publish_draft and the confirm step of  *)
(* the script.  A printed line is named by its format string.               *)

\* what the user may type at the three prompts
EmailInputs == {<<>>, <<"n">>, <<"Y">>}
AudienceInputs == {<<>>, <<"1">>, <<"2">>}
ConfirmInputs == {<<>>, <<"y">>, <<"Y">>, <<" ", "y", " ">>, <<"n">>, <<"y", "e", "s">>}

PublishInputs ==
    [selected_draft : {[id |-> 7]}, send_email : EmailInputs,
     audience_choice : AudienceInputs, confirm : ConfirmInputs]

\* lines 278-279: input(...).lower().strip() and send_email != 'n'
SendEmail(typed) == strip(lower(typed)) /= <<"n">>

\* lines 282-283
Audience(typed) == IF strip(typed) = <<"2">> THEN "paid" ELSE "everyone"

\* line 291: input(...).lower().strip(), and line 293
Confirmed(typed) == strip(lower(typed)) = <<"y">>

\* lines 58-61
PublishData(send_email, audience) ==
    [should_send_email |-> send_email, audience |-> audience]

\* the bodies the platform answers the publish request with
PublishedBodies == {[id |-> 7], [id |-> 7, slug |-> "s"]}

\* lines 70-73
PostUrl(body) == IF "slug" \in DOMAIN body THEN <<"/p/" \o body.slug>> ELSE None

\* lines 76-82: the dict returned for status 200
PublishSuccess(body) ==
    [success |-> TRUE, post_id |-> body.id, post_url |-> PostUrl(body),
     message |-> "Draft {draft_id} published successfully", raw_result |-> body]

\* lines 85-89: the dict returned for another status
PublishFailure(status_code) ==
    [success |-> FALSE, message |-> "Failed to publish draft {draft_id}: {response.text}",
     error_code |-> status_code]

\* Python's truth value of a dict: only {} is false
TruthyDict(d) == DOMAIN d /= {}

\* line 298: if result
Reported(publish_result) == TruthyDict(publish_result)

\* lines 299-303: what the script prints for the result of publish_draft
OutcomeLines(publish_result) ==
    IF Reported(publish_result)
    THEN <<"SUCCESS! Draft published!">>
             \o (IF "slug" \in DOMAIN publish_result THEN <<"Post URL: {pub_url}/p/{slug}">>
                 ELSE <<>>)
    ELSE <<"FAILED to publish draft.">>

\* the state before the prompts of lines 278-291
InitPublish ==
    /\ args \in PublishInputs
    /\ hpc = "confirm" /\ log = <<>> /\ slept = <<>> /\ printed = <<>>
    /\ drafts = <<>> /\ reference_id = None /\ response = None /\ attempt = 0
    /\ updated_drafts = <<>> /\ candidates = <<>> /\ update_data = <<>>
    /\ returned = <<>> /\ exception = None
    /\ FormatterIdle /\ CompilerIdle /\ ThreadsIdle

\* what no action of the script changes
PublishFrame ==
    UNCHANGED <<fvars, cvars, tvars, args, slept, drafts, reference_id, attempt,
                updated_drafts, candidates, update_data>>

\* lines 278-293 and 304-305: the prompts, and the end when not confirmed
ConfirmPublish ==
    /\ hpc = "confirm"
    /\ IF Confirmed(args.confirm)
       THEN GoOn("publish") /\ UNCHANGED printed
       ELSE /\ printed' = printed \o <<"Publishing cancelled.", "Publishing complete!">>
            /\ GoOn("done")
    /\ UNCHANGED <<log, response>>
    /\ PublishFrame

\* lines 51-89: publish_draft(selected_draft['id'], send_email, audience)
publish_draft(answer) ==
    /\ hpc = "publish"
    /\ log' = Append(log, SentWith("POST", <<"drafts", args.selected_draft.id, "publish">>,
                                   PublishData(SendEmail(args.send_email),
                                               Audience(args.audience_choice)),
                                   answer))
    /\ IF answer.raises
       THEN Raise("RequestException") /\ UNCHANGED <<response, printed>>
       ELSE /\ response' = <<answer>>
            /\ IF answer.status_code = 200
               THEN /\ printed' = printed \o <<"SUCCESS! Draft {draft_id} published!">>
                         \o (IF "slug" \in DOMAIN answer.json
                             THEN <<"Post URL: {post_url}">> ELSE <<>>)
                    /\ returned' = <<PublishSuccess(answer.json)>>
               ELSE /\ printed' = printed \o <<"FAILED to publish: {response.text}">>
                    /\ returned' = <<PublishFailure(answer.status_code)>>
            /\ hpc' = "report"
            /\ exception' = exception
    /\ PublishFrame

\* lines 298-305: the script reports the result
ReportOutcome ==
    /\ hpc = "report"
    /\ printed' = printed \o OutcomeLines(returned[1]) \o <<"Publishing complete!">>
    /\ hpc' = "done"
    /\ UNCHANGED <<log, response, returned, exception>>
    /\ PublishFrame

NextPublish ==
    \/ ConfirmPublish
    \/ \E answer \in {NoAnswer} \cup {Answer(s, b) : s \in StatusCodes, b \in PublishedBodies} :
           publish_draft(answer)
    \/ ReportOutcome

SpecPublish == InitPublish /\ [][NextPublish]_vars

----------------------------------------------------------------------------
(* Properties of parse_markup_to_json *)

\* the argument of the call, as passed
Argument == Join(pieces, <<"|">>)

IsBlank(p) == strip(p) = <<>>

\* the part of a piece before its first '::', trimmed and lowercased
PieceTag(p) == lower(strip(Slice(p, 0, find(p, <<":", ":">>, 0))))

\* the part of a piece after its first '::', trimmed
PieceBody(p) == strip(Slice(p, find(p, <<":", ":">>, 0) + 2, Len(p)))

HasDoubleColon(p) == find(p, <<":", ":">>, 0) /= -1

\* the number of non-blank pipe-separated pieces of a string
NonBlankPieces(m) ==
    LET NonBlank(p) == ~IsBlank(p) IN Len(SelectSeq(split(m, <<"|">>), NonBlank))

LatexBefore(k) == Cardinality({i \in 1..k : content[i].type = "latex_block"})

\* C7: assembly order.  Every node of content comes from one block already
\* processed, the blocks of the nodes are strictly increasing (block order, at
\* most one node per block), there are never more nodes than non-blank pieces
\* of the argument, and at the return the children of the root are content,
\* each node is the node its block produces, and every block that produces a
\* node has its node among them.
C7_AssemblyOrder ==
    /\ Len(origin) = Len(content)
    /\ \A k \in 1..Len(origin) : origin[k] \in 1..bi
    /\ \A k \in 1..(Len(origin) - 1) : origin[k] < origin[k + 1]
    /\ Len(content) <= NonBlankPieces(Argument)
    /\ pc \in {"loop", "done"} => Len(blocks) = NonBlankPieces(Argument)
    /\ pc = "done" =>
         /\ result = <<DocNode(content)>>
         /\ \A k \in 1..Len(origin) :
              LoopBody(blocks[origin[k]], 1 + LatexBefore(k - 1)).nodes = <<content[k]>>
         /\ \A j \in 1..Len(blocks) :
              LoopBody(blocks[j], 1).nodes /= <<>> => \E k \in 1..Len(origin) : origin[k] = j

\* a root of two nodes from three blocks, the block in the middle without a node
C7_Witness ==
    /\ pc = "done" /\ Len(blocks) = 3 /\ origin = <<1, 3>>
    /\ content[1].type = "heading" /\ content[2].type = "latex_block"

\* a piece that is empty, blank, or a tag and '::' with an empty body
NeutralPiece(p) == IsBlank(p) \/ (HasDoubleColon(p) /\ PieceBody(p) = <<>>)

KeepNonNeutral(ps) == LET Keep(p) == ~NeutralPiece(p) IN SelectSeq(ps, Keep)

MalformedPiece(p) ==
    HasDoubleColon(p) /\ (PieceTag(p) \notin RecognizedTags \/ PieceBody(p) = <<>>)

KeepWellFormed(ps) == LET Keep(p) == ~MalformedPiece(p) IN SelectSeq(ps, Keep)

CodeBody(m) == Slice(m, find(m, <<":", ":">>, 0) + 2, Len(m))

CodeLanguagePart(m) == Slice(CodeBody(m), 0, find(CodeBody(m), <<"|">>, 0))

CodeTextPart(m) ==
    Slice(CodeBody(m), find(CodeBody(m), <<"|">>, 0) + 1, Len(CodeBody(m)))

IsCodeForm(m) ==
    /\ HasDoubleColon(m) /\ PieceTag(m) = T_code
    /\ ~Contains(CodeBody(m), <<":", ":">>)
    /\ Contains(CodeBody(m), <<"|">>)
    /\ ~Contains(CodeTextPart(m), <<"|">>)
    /\ ~IsBlank(CodeTextPart(m))

ExpectedCodeBlock(language, code) ==
    [type |-> "code_block", attrs |-> [language |-> language],
     content |-> <<PlainRun(code)>>]

\* C6: code block language.  The call on 'Code:: L | C' returns one code block
\* whose language is L trimmed (None when empty) and whose text is C trimmed;
\* the call on a code block whose body has no '|' returns one code block
\* without language whose text is the body.
C6_CodeLanguage ==
    pc = "done" /\ Len(pieces) = 1 =>
      LET m == ReplaceSemicolons(pieces[1])
      IN /\ IsCodeForm(m) =>
              result = <<DocNode(<<ExpectedCodeBlock(OrNone(strip(CodeLanguagePart(m))),
                                                     strip(CodeTextPart(m)))>>)>>
         /\ (/\ HasDoubleColon(m) /\ PieceTag(m) = T_code
             /\ ~Contains(CodeBody(m), <<"|">>) /\ ~Contains(CodeBody(m), <<":", ":">>)
             /\ ~IsBlank(CodeBody(m))) =>
              result = <<DocNode(<<ExpectedCodeBlock(None, strip(CodeBody(m)))>>)>>

\* an argument that is one block without '::' and without '|', not blank
IsImplicitBlock(ps) ==
    /\ Len(ps) = 1 /\ ~HasDoubleColon(ps[1]) /\ ~Contains(ps[1], <<"|">>)
    /\ ~IsBlank(ps[1])

\* C10 as stated: the call on such a block b returns what the call on
\* 'Text:: ' + b returns, one paragraph whose content is the formatting of b
\* trimmed.
C10_ImplicitTextAsStated ==
    pc = "done" /\ IsImplicitBlock(pieces) =>
      /\ result = parse_markup_to_json(X_text \o pieces[1])
      /\ result = <<DocNode(<<ParagraphNode(parse_inline_formatting(strip(pieces[1])))>>)>>

\* C10: implicit text block.  The call on a block b without '::' and '|', not
\* blank, returns what the call on 'Text:: ' + b returns: one paragraph whose
\* content is the formatting of b, with each ';' replaced by ',', trimmed.
C10_ImplicitText ==
    pc = "done" /\ IsImplicitBlock(pieces) =>
      /\ result = parse_markup_to_json(X_text \o pieces[1])
      /\ result = <<DocNode(<<ParagraphNode(
                      parse_inline_formatting(strip(ReplaceSemicolons(pieces[1]))))>>)>>

\* the call on '*;*' has returned one paragraph with the italic run ','
C10_Witness ==
    /\ pc = "done" /\ pieces = << <<"*", ";", "*">> >>
    /\ content = <<ParagraphNode(<<MarkRun(<<",">>, "em")>>)>>

\* the characters of the strings of a sequence of runs: the texts and the
\* hrefs of the link marks
RECURSIVE MarksChars(_)
MarksChars(ms) ==
    IF ms = <<>> THEN <<>>
    ELSE (IF ms[1].type = "link" THEN ms[1].attrs.href ELSE <<>>) \o MarksChars(Tail(ms))

RECURSIVE RunsChars(_)
RunsChars(rs) ==
    IF rs = <<>> THEN <<>>
    ELSE rs[1].text \o MarksChars(rs[1].marks) \o RunsChars(Tail(rs))

RECURSIVE ItemsChars(_)
ItemsChars(items) ==
    IF items = <<>> THEN <<>>
    ELSE RunsChars(items[1].content[1].content) \o ItemsChars(Tail(items))

\* the characters of all the strings of a node: text, url, href, code text,
\* language, LaTeX expression and id
NodeChars(n) ==
    CASE n.type = "heading" -> RunsChars(n.content)
      [] n.type = "paragraph" ->
            IF "content" \in DOMAIN n THEN RunsChars(n.content) ELSE <<>>
      [] n.type \in {"blockquote", "pullquote", "footnote"} ->
            RunsChars(n.content[1].content)
      [] n.type \in {"bullet_list", "ordered_list"} -> ItemsChars(n.content)
      [] n.type = "code_block" ->
            Flatten(n.attrs.language) \o RunsChars(n.content)
      [] n.type = "horizontal_rule" -> <<>>
      [] n.type = "button" -> n.attrs.url \o n.attrs.text
      [] n.type = "subscribeWidget" ->
            n.attrs.url \o n.attrs.text \o n.attrs.language
              \o RunsChars(n.content[1].content)
      [] n.type = "captionedShareButton" ->
            n.attrs.url \o n.attrs.text \o RunsChars(n.content[1].content)
      [] n.type = "latex_block" -> n.attrs.persistentExpression \o n.attrs.id

RECURSIVE TreeChars(_)
TreeChars(c) == IF c = <<>> THEN <<>> ELSE NodeChars(c[1]) \o TreeChars(Tail(c))

CountChar(s, ch) == Cardinality({i \in 1..Len(s) : s[i] = ch})

\* the blocks of the argument as passed, before the substitution
ArgumentBlocks == SplitBlocks(Argument)

\* the body a block hands to its branch: all of a block without '::'
BlockBody(b) == IF HasDoubleColon(b) THEN PieceBody(b) ELSE b

\* the node types whose branch puts the whole body into the node
WholeBodyTypes ==
    { "heading", "blockquote", "pullquote", "bullet_list", "code_block", "button",
      "subscribeWidget", "captionedShareButton", "latex_block" }

KeepsBody(n) ==
    n.type \in WholeBodyTypes \/ (n.type = "paragraph" /\ "content" \in DOMAIN n)

IsLatexBlock(b) == HasDoubleColon(b) /\ PieceTag(b) = T_latex /\ PieceBody(b) /= <<>>

\* the number of such blocks among the first j blocks
LatexBlocksUpTo(j) == Cardinality({i \in 1..j : IsLatexBlock(blocks[i])})

\* C12: equation identifiers.  The counter is one more than the number of
\* latex blocks with a non-empty body processed so far, so no other block
\* advances it; the k-th such block, in block order, has a latex node whose id
\* is EQUATION_k, k from 1; and the ids of the latex nodes are pairwise
\* distinct.
C12_EquationIds ==
    /\ pc \in {"loop", "done"} => footnote_counter = 1 + LatexBlocksUpTo(bi)
    /\ \A j \in 1..bi :
         IsLatexBlock(blocks[j]) <=>
           \E k \in 1..Len(content) :
              /\ origin[k] = j
              /\ content[k].type = "latex_block"
              /\ content[k].attrs.id = EquationPrefix \o str(LatexBlocksUpTo(j))
    /\ \A k1, k2 \in 1..Len(content) :
         /\ content[k1].type = "latex_block" /\ content[k2].type = "latex_block"
         /\ k1 /= k2
         => content[k1].attrs.id /= content[k2].attrs.id

\* two latex blocks with a body, a footnote and a latex block without body
\* between them: the ids are EQUATION_1 and EQUATION_2
C12_Witness ==
    /\ pc = "done" /\ pieces = <<P_latex, P_footnote, P_latex_nobody, P_latex_lower>>
    /\ Len(content) = 3
    /\ content[1].attrs.id = EquationPrefix \o <<"1">>
    /\ content[2].type = "footnote"
    /\ content[3].attrs.id = EquationPrefix \o <<"2">>

\* the number of latex nodes among the first k nodes of a list of nodes
LatexAmong(c, k) == Cardinality({i \in 1..k : c[i].type = "latex_block"})

\* C13: no state crosses compile calls.  Whatever the interleaving of the
\* calls of the threads, block by block or one call after another, a call
\* that has returned has returned the tree that the call alone returns for
\* its argument; in every frame the n-th latex node has the id EQUATION_n,
\* whatever latex blocks the other calls have; and no call writes the module
\* globals.
C13_NoSharedState ==
    /\ session = None /\ pub_url = None
    /\ \A t \in DOMAIN frames :
         /\ frames[t].raised = FALSE
         /\ frames[t].pc = "done" =>
              frames[t].result = parse_markup_to_json(frames[t].arg)
         /\ \A k \in 1..Len(frames[t].content) :
              frames[t].content[k].type = "latex_block" =>
                frames[t].content[k].attrs.id
                  = EquationPrefix \o str(LatexAmong(frames[t].content, k))

\* two calls, each of two latex blocks, have returned after each processed a
\* block while the other was in the middle of its loop
C13_Witness ==
    /\ \A t \in Threads :
         /\ frames[t].pc = "done" /\ frames[t].interleaved
         /\ frames[t].arg = Join(<<P_latex, P_latex>>, <<"|">>)
         /\ Len(frames[t].content) = 2
         /\ frames[t].content[1].attrs.id = EquationPrefix \o <<"1">>
         /\ frames[t].content[2].attrs.id = EquationPrefix \o <<"2">>

\* the trimmed parts that are not empty, in order
TrimmedSegments(parts) ==
    LET NonEmpty(x) == x /= <<>>
    IN SelectSeq([i \in 1..Len(parts) |-> strip(parts[i])], NonEmpty)

\* a list item that holds one paragraph with the formatted segment
ExpectedItem(segment) ==
    [type |-> "list_item",
     content |-> <<[type |-> "paragraph",
                    content |-> parse_inline_formatting(segment)]>>]

ExpectedItems(segments) == [i \in 1..Len(segments) |-> ExpectedItem(segments[i])]

\* a block with the tag and a body that is not empty
IsTagged(b, tag) == HasDoubleColon(b) /\ PieceTag(b) = tag /\ PieceBody(b) /= <<>>

\* the nodes of content that come from block j
NodesOf(j) ==
    Flatten([k \in 1..Len(content) |-> IF origin[k] = j THEN <<content[k]>> ELSE <<>>])

\* a plain item, as the items of 'List:: ' and three bulleted letters are
PlainItem(t) ==
    [type |-> "list_item",
     content |-> <<[type |-> "paragraph",
                    content |-> <<[type |-> "text", text |-> t, marks |-> <<>>]>>]>>]

\* C16: bullet list splitting.  A list block yields exactly one node, a
\* bullet list whose items are, one for one and in order, the trimmed
\* non-empty segments of the body split on the bullet, each item one paragraph
\* of the formatted segment; the call on 'List:: ' with the items a, b, c
\* returns exactly the three items a, b, c.
C16_BulletList ==
    pc = "done" =>
      /\ \A j \in 1..Len(blocks) :
           IsTagged(blocks[j], T_list) =>
             NodesOf(j) =
               <<[type |-> "bullet_list",
                  content |-> ExpectedItems(
                      TrimmedSegments(split(PieceBody(blocks[j]), <<BULLET>>)))]>>
      /\ pieces = <<E_list>> =>
           content = <<[type |-> "bullet_list",
                        content |-> <<PlainItem(<<"a">>), PlainItem(<<"b">>),
                                      PlainItem(<<"c">>)>>]>>

\* the call on 'List:: ' with the items a, b, c has returned three items
C16_Witness ==
    /\ pc = "done" /\ pieces = <<E_list>>
    /\ Len(content) = 1 /\ content[1].type = "bullet_list"
    /\ Len(content[1].content) = 3

\* the fragments that follow the occurrences of digits-then-period
FragmentsAfterMarkers(body) == Tail(re_split_numbers(body))

\* the argument 'NumberList:: a1.a'
NumberlistArgument == X_numberlist \o <<"a", "1", ".", "a">>

HasBracketNumber(b) ==
    /\ Len(b) >= 3 /\ b[1] = "["
    /\ DigitsEnd(b, 1) > 1 /\ DigitsEnd(b, 1) < Len(b)
    /\ b[DigitsEnd(b, 1) + 1] = "]"

BracketDigits(b) == Slice(b, 1, DigitsEnd(b, 1))

\* the rest of the body after the bracket and the whitespace that follows it
AfterBracket(b) == LStrip(Slice(b, DigitsEnd(b, 1) + 1, Len(b)))

\* C18: footnote acceptance and rejection.  A footnote block yields a node
\* exactly when its body starts with '[', digits, ']'; the node is a footnote
\* whose number is the value of the digits and whose paragraph text is the
\* rest of the body after optional whitespace; no call raises.
C18_Footnote ==
    /\ raised = FALSE
    /\ pc = "done" =>
         \A j \in 1..Len(blocks) :
            IsTagged(blocks[j], T_footnote) =>
              LET b == PieceBody(blocks[j])
              IN IF HasBracketNumber(b)
                 THEN NodesOf(j) =
                        <<[type |-> "footnote",
                           attrs |-> [number |-> int(BracketDigits(b))],
                           content |-> <<[type |-> "paragraph",
                                          content |-> <<[type |-> "text",
                                                         text |-> AfterBracket(b),
                                                         marks |-> <<>>]>>]>>]>>
                 ELSE NodesOf(j) = <<>>

\* the level the claim gives to a tag
LevelOfTag(tag) ==
    CASE tag = T_title -> 1
      [] tag = T_subtitle -> 2
      [] tag = <<"h", "1">> -> 1
      [] tag = <<"h", "2">> -> 2
      [] tag = <<"h", "3">> -> 3
      [] tag = <<"h", "4">> -> 4
      [] tag = <<"h", "5">> -> 5
      [] tag = <<"h", "6">> -> 6

IsHeadingTag(tag) ==
    tag \in {T_title, T_subtitle} \cup {<<"h", d>> : d \in {"1", "2", "3", "4", "5", "6"}}

\* C19: heading level mapping.  A block whose tag is title, subtitle or h1 to
\* h6, in any letter case, and whose body is not empty yields exactly one
\* node, a heading whose level is 1 for title, 2 for subtitle and the digit
\* for h1 to h6, and whose one child is the text of the body as it is, with
\* no mark, also when the body has markers; the call on 'H3:: hi' returns
\* the heading of level 3 with the text 'hi'.
C19_HeadingLevel ==
    pc = "done" =>
      /\ \A j \in 1..Len(blocks) :
           (HasDoubleColon(blocks[j]) /\ IsHeadingTag(PieceTag(blocks[j]))
              /\ PieceBody(blocks[j]) /= <<>>) =>
             NodesOf(j) =
               <<[type |-> "heading",
                  attrs |-> [level |-> LevelOfTag(PieceTag(blocks[j]))],
                  content |-> <<[type |-> "text", text |-> PieceBody(blocks[j]),
                                 marks |-> <<>>]>>]>>
      /\ pieces = <<E_heading>> =>
           content = <<[type |-> "heading", attrs |-> [level |-> 3],
                        content |-> <<[type |-> "text", text |-> <<"h", "i">>,
                                       marks |-> <<>>]>>]>>

\* the call on 'h2:: *a*' has returned a heading of level 2 whose text is
\* '*a*'
C19_Witness ==
    /\ pc = "done" /\ pieces = << X_h2 \o <<"*", "a", "*">> >>
    /\ content = <<[type |-> "heading", attrs |-> [level |-> 2],
                    content |-> <<[type |-> "text", text |-> <<"*", "a", "*">>,
                                   marks |-> <<>>]>>]>>

\* the offset of the first '->' of a body, -1 when there is none
FirstArrow(b) == find(b, <<"-", ">">>, 0)

ExpectedButton(url, t) ==
    [type |-> "button",
     attrs |-> [url |-> url, text |-> t, action |-> <<>>, class |-> <<>>]]

\* C20: button text and url.  A button block yields exactly one button node;
\* when the body has '->' its text is the part before the first '->',
\* trimmed, and its url all that follows the first '->', trimmed; when the
\* body has no '->' its text is the whole body and its url is '#'; the call
\* on 'Button:: Click me' returns the button 'Click me' with url '#'.
C20_Button ==
    pc = "done" =>
      /\ \A j \in 1..Len(blocks) :
           IsTagged(blocks[j], T_button) =>
             LET b == PieceBody(blocks[j])
                 i == FirstArrow(b)
             IN NodesOf(j) =
                  IF i /= -1
                  THEN <<ExpectedButton(strip(Slice(b, i + 2, Len(b))),
                                        strip(Slice(b, 0, i)))>>
                  ELSE <<ExpectedButton(<<"#">>, b)>>
      /\ pieces = <<E_button>> =>
           content = <<ExpectedButton(<<"#">>,
                          <<"C", "l", "i", "c", "k", " ", "m", "e">>)>>

\* the call on 'Button:: a->' + newline + 'a' has returned the button 'a'
\* with url 'a'
C20_Witness ==
    /\ pc = "done" /\ pieces = << X_button \o <<"a", "-", ">", "\n", "a">> >>
    /\ content = <<ExpectedButton(<<"a">>, <<"a">>)>>

----------------------------------------------------------------------------
(* Properties of parse_inline_formatting *)

\* the texts of the runs, concatenated
RunTexts(es) == Flatten([i \in 1..Len(es) |-> es[i].text])

\* the characters the patterns give a meaning to
MarkerChars == {"*", "~", BACKTICK, "[", "]", "(", ")"}

NoMarkers(t) == \A i \in 1..Len(t) : t[i] \notin MarkerChars

\* the length of the opening delimiter of a match
OpenLen(m) == IF m.format_type \in {"strong", "strikethrough"} THEN 2 ELSE 1

\* the offsets of the delimiter characters of a match: all of the match but
\* its group 1
DelimiterOffsets(m) ==
    (m.start..(m.end - 1))
      \ ((m.start + OpenLen(m))..(m.start + OpenLen(m) + Len(m.group1) - 1))

\* the text without the delimiter characters of the matches
WithoutDelimiters(t, ms) ==
    LET gone == UNION {DelimiterOffsets(ms[i]) : i \in 1..Len(ms)}
    IN Flatten([i \in 1..Len(t) |-> IF (i - 1) \in gone THEN <<>> ELSE <<t[i]>>])

\* C2: content preservation.  The texts of the returned runs, concatenated in
\* order, are the input without the delimiter characters of the matched
\* markers: no character is lost, duplicated or reordered.
C2_ContentPreserved ==
    fpc = "done" => RunTexts(elements) = WithoutDelimiters(text, matches)

\* t is P + '**' + X + '**' + S, with P, X and S not blank and free of
\* marker characters
BoldOpen(t) == find(t, <<"*", "*">>, 0)

BoldClose(t) == find(t, <<"*", "*">>, BoldOpen(t) + 2)

IsBoldForm(t) ==
    /\ BoldOpen(t) /= -1 /\ BoldClose(t) /= -1
    /\ \A part \in { Slice(t, 0, BoldOpen(t)),
                     Slice(t, BoldOpen(t) + 2, BoldClose(t)),
                     Slice(t, BoldClose(t) + 2, Len(t)) } :
          NoMarkers(part) /\ ~IsBlank(part)

\* C3: bold span extraction.  For P + '**' + X + '**' + S the runs returned
\* are exactly P unstyled, X with the single mark strong, S unstyled.
C3_BoldSpan ==
    fpc = "done" /\ IsBoldForm(text) =>
      elements = << PlainRun(Slice(text, 0, BoldOpen(text))),
                    MarkRun(Slice(text, BoldOpen(text) + 2, BoldClose(text)), "strong"),
                    PlainRun(Slice(text, BoldClose(text) + 2, Len(text))) >>

\* the opening delimiters of the five patterns
OpenDelimiters == { <<"*", "*">>, <<"*">>, <<"~", "~">>, <<BACKTICK>>, <<"[">> }

\* t has one opening delimiter that nothing closes: around it there is no
\* marker character
IsUnterminated(t) ==
    \E d \in OpenDelimiters :
        /\ find(t, d, 0) /= -1
        /\ NoMarkers(Slice(t, 0, find(t, d, 0)))
        /\ NoMarkers(Slice(t, find(t, d, 0) + Len(d), Len(t)))

\* C4: malformed inline markers are literal text.  For a text with an
\* unterminated marker no run returned has a mark and the texts of the runs
\* concatenate to the input, the delimiter included.
C4_UnterminatedLiteral ==
    fpc = "done" /\ IsUnterminated(text) =>
      /\ \A i \in 1..Len(elements) : elements[i].marks = <<>>
      /\ RunTexts(elements) = text

\* C5: no empty run.  The sequence returned has at least one run and no run
\* of it has an empty text.
C5_NoEmptyRun ==
    fpc = "done" =>
      /\ Len(elements) >= 1
      /\ \A i \in 1..Len(elements) : elements[i].text /= <<>>

\* the runs of the walk and of the remaining text, before the filter
RawRuns(t) ==
    LET st == WalkAll(t, SortedMatches(t), 1, [elements |-> <<>>, current_pos |-> 0])
    IN st.elements \o RemainingRuns(t, st.current_pos)

\* C14: fallback to a single plain run.  When no pattern matches the text,
\* or when the filter of blank runs leaves no run, the runs returned are
\* exactly one run without marks whose text is the whole input; for
\* 'no markers' it is the one run 'no markers'.
C14_Fallback ==
    fpc = "done" =>
      /\ (matches = <<>> \/ FilterRuns(RawRuns(text)) = <<>>) =>
           /\ Len(elements) = 1
           /\ elements[1] = [type |-> "text", text |-> text, marks |-> <<>>]
      /\ text = E_no_markers => matches = <<>>

\* the call on 'no markers' has returned its one plain run
C14_Witness ==
    /\ fpc = "done" /\ text = E_no_markers
    /\ elements = <<[type |-> "text", text |-> E_no_markers, marks |-> <<>>]>>

\* t is '[' + X + '](' + Y + ')' with X and Y not empty and free of marker
\* characters
LinkX(t) == Slice(t, 1, find(t, <<"]">>, 0))

LinkY(t) == Slice(t, find(t, <<"]">>, 0) + 2, Len(t) - 1)

IsLinkForm(t) ==
    /\ Len(t) >= 6 /\ t[1] = "[" /\ t[Len(t)] = ")"
    /\ find(t, <<"]", "(">>, 0) >= 2
    /\ find(t, <<"]", "(">>, 0) = find(t, <<"]">>, 0)
    /\ LinkX(t) /= <<>> /\ NoMarkers(LinkX(t))
    /\ LinkY(t) /= <<>> /\ NoMarkers(LinkY(t))

\* the run the claim describes
ExpectedLinkRun(x, y) ==
    [type |-> "text", text |-> x,
     marks |-> << [type |-> "link",
                   attrs |-> [href |-> y, target |-> "_blank",
                              rel |-> "noopener noreferrer nofollow",
                              class |-> <<>>]] >>]

\* C15 as stated: for '[X](Y)' with X and Y not empty and free of marker
\* characters the runs returned are exactly the one link run of X to Y.
C15_LinkRunAsStated ==
    fpc = "done" /\ IsLinkForm(text) =>
      elements = <<ExpectedLinkRun(LinkX(text), LinkY(text))>>

\* C15: link run.  For '[X](Y)' with X not blank, Y not empty and both free
\* of marker characters the runs returned are exactly one run of text X with
\* the single mark link, href Y, target _blank, rel 'noopener noreferrer
\* nofollow' and class None.  When X is blank the filter drops that run and
\* the runs returned are the one plain run of the whole text.
C15_LinkRun ==
    fpc = "done" /\ IsLinkForm(text) =>
      /\ ~IsBlank(LinkX(text)) =>
           elements = <<ExpectedLinkRun(LinkX(text), LinkY(text))>>
      /\ IsBlank(LinkX(text)) =>
           elements = <<[type |-> "text", text |-> text, marks |-> <<>>]>>

\* the call on '[x](http://y)' has returned its one link run
C15_Witness ==
    /\ fpc = "done" /\ text = E_link
    /\ Len(elements) = 1 /\ elements[1].text = <<"x">>
    /\ elements[1].marks[1].attrs.href = <<"h", "t", "t", "p", ":", "/", "/", "y">>

----------------------------------------------------------------------------
(* The order of the matches *)

\* the place of a style in the list of patterns
PatternIndex(format_type) ==
    CHOOSE i \in 1..Len(patterns) : patterns[i].format_type = format_type

\* the matches of one style, in the order of the list
MatchesOfStyle(ms, format_type) ==
    SelectSeq(ms, LAMBDA m : m.format_type = format_type)

\* the runs that carry a mark
StyledRuns(es) == SelectSeq(es, LAMBDA e : e.marks /= <<>>)

\* the styled runs of the first k matches
StyledRunsOf(ms, k) == [i \in 1..k |-> StyledRun(ms[i])]

\* two matches share a character of the text
Overlap(m, n) == m.start < n.end /\ n.start < m.end

\* C21: the matches of the five patterns, each found on its own over the whole
\* text, are walked in non-decreasing order of start, matches with equal start
\* in the order strong, em, strikethrough, code, link; no match is dropped
\* for overlapping another: the walk appends the styled run of every match, in
\* that order, and the returned runs hold them all but the blank ones.
C21_MatchOrder ==
    fpc \in {"walk", "post", "done"} =>
        /\ \A i, j \in 1..Len(matches) :
               i < j =>
                   \/ matches[i].start < matches[j].start
                   \/ /\ matches[i].start = matches[j].start
                      /\ PatternIndex(matches[i].format_type)
                             < PatternIndex(matches[j].format_type)
        /\ \A p \in 1..Len(patterns) :
               MatchesOfStyle(matches, patterns[p].format_type)
                   = finditer(text, patterns[p], 0)
        /\ \A i \in 1..Len(matches) :
               \E p \in 1..Len(patterns) :
                   patterns[p].format_type = matches[i].format_type
        /\ fpc \in {"walk", "post"} =>
               StyledRuns(elements) = StyledRunsOf(matches, mi)
        /\ fpc = "done" =>
               StyledRuns(elements)
                   = FilterRuns(StyledRunsOf(matches, Len(matches)))

\* 'a**a**': the bold span and the italic match inside it both gave a run
C21_Witness ==
    /\ text = <<"a", "*", "*", "a", "*", "*">>
    /\ fpc = "post"
    /\ Len(matches) = 3
    /\ matches[1].format_type = "strong" /\ matches[2].format_type = "em"
    /\ matches[1].start = matches[2].start
    /\ Overlap(matches[1], matches[3])
    /\ Len(StyledRuns(elements)) = 3

\* C30: during the walk over the sorted matches the cursor into the text never
\* moves backwards, and a plain gap run that an iteration adds starts at or
\* after the end of every match walked before it.
C30_CursorMonotonic ==
    [][ fpc = "walk" /\ mi' = mi + 1 =>
            /\ current_pos' >= current_pos
            /\ \A i \in 1..mi :
                   GapRuns(text, current_pos, matches[mi + 1]) /= <<>>
                       => current_pos >= matches[i].end ]_vars

----------------------------------------------------------------------------
(* Properties of the returned tree *)

\* the text nodes of the paragraphs of a sequence of list items
RECURSIVE ItemsTextNodes(_)
ItemsTextNodes(items) ==
    IF items = <<>> THEN <<>>
    ELSE items[1].content[1].content \o ItemsTextNodes(Tail(items))

\* the nodes of type text below a node of the tree
TextNodesOf(n) ==
    CASE n.type \in {"heading", "code_block"} -> n.content
      [] n.type = "paragraph" ->
            IF "content" \in DOMAIN n THEN n.content ELSE <<>>
      [] n.type \in {"blockquote", "pullquote", "footnote", "subscribeWidget",
                     "captionedShareButton"} -> n.content[1].content
      [] n.type \in {"bullet_list", "ordered_list"} -> ItemsTextNodes(n.content)
      [] OTHER -> <<>>

\* the children of the returned root
ReturnedNodes == IF result = <<>> THEN <<>> ELSE result[1].content

\* C27: no node of type text anywhere in the returned tree (paragraph runs,
\* headings, quotes, list items, code blocks, widget captions, footnote
\* paragraphs) has an empty text.
C27_NoEmptyText ==
    pc = "done" =>
        \A i \in 1..Len(ReturnedNodes) :
            LET ts == TextNodesOf(ReturnedNodes[i])
            IN \A k \in 1..Len(ts) : ts[k].type = "text" => ts[k].text /= <<>>

\* C28: every bullet list and every ordered list of the returned tree has at
\* least one list item.
C28_NoEmptyList ==
    pc = "done" =>
        \A i \in 1..Len(ReturnedNodes) :
            ReturnedNodes[i].type \in {"bullet_list", "ordered_list"}
                => /\ ReturnedNodes[i].content /= <<>>
                   /\ \A k \in 1..Len(ReturnedNodes[i].content) :
                          ReturnedNodes[i].content[k].type = "list_item"

----------------------------------------------------------------------------
(* Properties of create_draft_with_retry_logic *)

\* the call is over: it returned or an exception left it
CallOver == hpc \in {"done", "raised"}

\* the returned triple
ReturnedDraft == returned[1][1]
ReturnedSuccess == returned[1][2]

\* the call returned (None, False, message)
ReturnedFailure ==
    hpc = "done" /\ ReturnedDraft = None /\ ReturnedSuccess = FALSE

\* C22: every call ends by returning a triple (draft, success, message) with
\* success true exactly when draft is not None; no failure, a missing
\* publication_url or missing credentials included, is raised as an exception.
C22_FailuresAreValues ==
    /\ hpc /= "raised"
    /\ exception = None
    /\ hpc = "done" =>
           /\ Len(returned) = 1 /\ Len(returned[1]) = 3
           /\ ReturnedSuccess = (ReturnedDraft /= None)

\* the places in the history of the requests of one method
RequestsBy(method) == {i \in 1..Len(log) : log[i].method = method}

Answered(i, status_code) == ~log[i].raises /\ log[i].status_code = status_code

\* the first listing answered 200 with an unpublished draft, and the GET of
\* the first unpublished draft answered 200
ReferenceFetched ==
    /\ Len(log) >= 2
    /\ log[1].method = "GET" /\ log[1].path = <<"drafts">> /\ Answered(1, 200)
    /\ \E i \in 1..Len(drafts) :
           /\ ~drafts[i].is_published
           /\ \A j \in 1..(i - 1) : drafts[j].is_published
           /\ log[2].method = "GET" /\ log[2].path = <<"drafts", drafts[i].id>>
    /\ Answered(2, 200)

PollCount == IF Len(log) > 3 THEN Len(log) - 3 ELSE 0

\* the last poll answered 200, so that updated_drafts is its listing
LastPollListed == PollCount > 0 /\ Answered(Len(log), 200)

\* the listing has a draft with the requested title
TitleListed(listing) ==
    \E i \in 1..Len(listing) : listing[i].draft_title = args.title

\* the listing has a draft with the requested title whose draft_updated_at
\* does not parse or is later than 30 s before the creation
RecentTitleListed(listing) ==
    \E i \in 1..Len(listing) :
        /\ listing[i].draft_title = args.title
        /\ \/ listing[i].draft_updated_at = <<>>
           \/ listing[i].draft_updated_at[1] > creation_timestamp - 30

\* the recovery, for a notion of what a poll finds
RecoveryBounded(Finds(_)) ==
    /\ PollCount <= 3
    /\ slept = [i \in 1..PollCount |-> i]
    /\ hpc = "recover" =>
           /\ attempt = PollCount
           /\ ~(LastPollListed /\ Finds(updated_drafts))
    /\ LastPollListed /\ Finds(updated_drafts) =>
           hpc = "done" /\ ReturnedSuccess /\ ReturnedDraft /= None
    /\ hpc = "done" /\ PollCount > 0 /\ ~(LastPollListed /\ Finds(updated_drafts)) =>
           PollCount = 3 /\ ReturnedFailure

\* C25 as stated: the loop stops at the first attempt that finds a draft with
\* the requested title.
C25_RecoveryAsStated == RecoveryBounded(TitleListed)

\* C25: after a 500 answer to the POST the list is polled in attempts 1, 2, 3
\* after waits of 1, 2 and 3 seconds, never more than three times; the loop
\* stops with a success at the first attempt whose listing has a draft with
\* the requested title that is recent or has no readable date; a poll that
\* answers non-200, raises or lists no such draft moves on; after three such
\* attempts the call returns (None, False, message); and the recovery always
\* comes to its end.
C25_Recovery ==
    /\ [](RecoveryBounded(RecentTitleListed))
    /\ (hpc = "recover") ~> (hpc = "done")

\* three polls: one raised, one answered 404, one listed only an old draft
\* with the requested title; the call returned the failure
C25_Witness ==
    /\ hpc = "done" /\ PollCount = 3
    /\ log[4].raises /\ Answered(5, 404) /\ Answered(6, 200)
    /\ TitleListed(updated_drafts)
    /\ slept = <<1, 2, 3>>
    /\ ReturnedFailure

\* the places in the listing of the last poll of the drafts with the requested
\* title that pass the recency filter
PassingDrafts ==
    {i \in 1..Len(updated_drafts) :
        /\ updated_drafts[i].draft_title = args.title
        /\ updated_drafts[i].draft_updated_at /= <<>>
        /\ updated_drafts[i].draft_updated_at[1] > creation_timestamp - 30}

\* the call returned a draft found by the recovery
Recovered == hpc = "done" /\ PollCount > 0 /\ ReturnedSuccess

\* C26: when the recovery finds several listed drafts with the requested title
\* that pass the recency filter, the draft it returns is the one of them with
\* the greatest draft_updated_at.
C26_MostRecentWins ==
    Recovered /\ Cardinality(PassingDrafts) >= 2 =>
        \E i \in PassingDrafts :
            /\ ReturnedDraft = <<updated_drafts[i]>>
            /\ \A j \in PassingDrafts :
                   updated_drafts[j].draft_updated_at[1]
                       <= updated_drafts[i].draft_updated_at[1]

----------------------------------------------------------------------------
(* Properties of auto_save_draft_enhanced *)

\* draft_id, publication_url or credentials are missing, or no field is given
NothingToSave ==
    \/ args.draft_id = None \/ args.draft_id = <<0>>
    \/ ~Truthy(args.publication_url) \/ ~Truthy(args.user_credentials)
    \/ (args.title = None /\ args.subtitle = None /\ args.content_json = None)

\* the body has the key exactly when the argument is not None
HoldsExactly(body, key, argument) == (key \in DOMAIN body) <=> (argument /= None)

\* C23: the PUT's body holds draft_title, draft_subtitle and draft_body exactly
\* for the arguments title, subtitle and content_json that are not None, and
\* no other key; no request is sent and (None, False, message) is returned
\* when draft_id, publication_url or credentials are missing or no field is
\* given; success is true exactly when the PUT answered 200.
C23_PartialSave ==
    /\ Len(log) <= 1
    /\ \A i \in 1..Len(log) :
           /\ log[i].method = "PUT" /\ log[i].path = <<"drafts", args.draft_id[1]>>
           /\ DOMAIN log[i].json \subseteq {"draft_title", "draft_subtitle", "draft_body"}
           /\ HoldsExactly(log[i].json, "draft_title", args.title)
           /\ HoldsExactly(log[i].json, "draft_subtitle", args.subtitle)
           /\ HoldsExactly(log[i].json, "draft_body", args.content_json)
           /\ args.title /= None => log[i].json["draft_title"] = args.title[1]
           /\ args.subtitle /= None => log[i].json["draft_subtitle"] = args.subtitle[1]
           /\ args.content_json /= None =>
                  log[i].json["draft_body"].value = args.content_json[1].value
    /\ NothingToSave => log = <<>> /\ hpc \in {"autosave", "done"}
    /\ NothingToSave /\ hpc /= "autosave" => ReturnedFailure
    /\ ~NothingToSave /\ hpc = "done" => Len(log) = 1
    /\ hpc = "done" => (ReturnedSuccess <=> (log /= <<>> /\ Answered(1, 200)))
    /\ hpc = "done" => (ReturnedSuccess <=> ReturnedDraft /= None)
    /\ hpc = "raised" => log /= <<>> /\ log[1].raises

\* an empty title and a content, no subtitle: the PUT with exactly these two
\* keys was answered 200
C23_Witness ==
    /\ args.title = <<"">> /\ args.subtitle = None /\ args.content_json /= None
    /\ hpc = "done" /\ Len(log) = 1
    /\ DOMAIN log[1].json = {"draft_title", "draft_body"}
    /\ Answered(1, 200) /\ ReturnedSuccess

----------------------------------------------------------------------------
(* Properties of the publishing script *)

Printed(line) == \E i \in 1..Len(printed) : printed[i] = line

\* C29: in the confirm step 'SUCCESS! Draft published!' is printed only when
\* publish_draft reported success (the publish request answered 200); when
\* publish_draft reports success false, 'FAILED to publish draft.' is printed
\* instead.
C29_RealOutcome ==
    /\ Printed("SUCCESS! Draft published!") =>
           /\ returned /= <<>> /\ returned[1].success
           /\ Answered(1, 200)
    /\ hpc = "done" /\ returned /= <<>> /\ ~returned[1].success =>
           /\ Printed("FAILED to publish draft.")
           /\ ~Printed("SUCCESS! Draft published!")

====
